---- MODULE Spec2Model ----
(***************************************************************************)
(* State-machine model of the GPIO pin registry (gpio_manager.py), the     *)
(* buzzer driver (beep.py), the weight ADC driver (hx711.py) and the       *)
(* orchestrator (main.py) of ScaleOfSelfDiscipline.                        *)
(*                                                                         *)
(* Python dictionaries are functions with a finite domain: `p in d` is     *)
(* p \in DOMAIN d, `d[p] = v` is (p :> v) @@ d, `del d[p]` restricts the   *)
(* domain.  None is the string "None".                                     *)
(***************************************************************************)
EXTENDS Integers, Sequences, FiniteSets, TLC

VARIABLES
    \* ---- gpio_manager.py: module constant, GPIOManager fields, GPIO pins
    GPIO_AVAILABLE,     \* RPi.GPIO imported (TRUE) or MockGPIO in use (FALSE)
    gpio_initialized,   \* GPIOManager.gpio_initialized
    gpio_mode,          \* GPIOManager.gpio_mode
    allocated_pins,     \* GPIOManager.allocated_pins  {pin: module_name}
    pin_states,         \* channels set up in the GPIO library and their level
    \* ---- observation of the last registry call (operation, arguments, result)
    last,
    \* ---- threads calling allocate_pin / release_pin concurrently
    thr_pc,             \* where each thread stands inside allocate_pin
    thr_pin,            \* the pin argument of the call in progress
    granted,            \* pins whose allocation returned True to the thread
    \* ---- main.py: WeightMonitor fields and the orchestrator's position
    music_playing,      \* WeightMonitor.music_playing
    buzzer,             \* WeightMonitor.buzzer (0 is None, else the instance)
    music_thread,       \* WeightMonitor.music_thread (0 is None)
    created,            \* number of BadAppleBuzzer instances constructed
    mon_pc,             \* position of the orchestrator inside stop_music; "stopped"
                        \* once stop_music has returned, until the next start_music
    \* ---- beep.py: fields of each BadAppleBuzzer and its play_music thread
    stop_playing,       \* BadAppleBuzzer.stop_playing
    buzzer_initialized, \* BadAppleBuzzer.gpio_initialized
    mel_pc,             \* position of the play_music thread
    note_i,             \* loop index i of play_melody
    cycle_i,            \* loop index of tone
    \* ---- observations of the playback
    highs_after_stop,   \* HIGH writes begun by tone while the stop flag was set
    started_after_stop, \* a note was started while the stop flag was set
    exit_level,         \* level of the buzzer pin when the thread terminated
    cleaned,            \* cleanup() has returned for the instance
    refused,            \* setup_gpio of the instance did not get the pin
    \* ---- beep.py: the tone call in progress and observations of the calls
    tone_local,         \* arguments and local cycles of the tone call of each thread
    tone_writes,        \* levels the current tone call passed to output(), in order
    write_errors,       \* some output() of a tone call of the thread failed
    played,             \* the tone calls play_melody made: <<frequency, duration>>
    gaps,               \* the inter-note gaps play_melody has waited
    \* ---- main.py: the LED of WeightMonitor and its request queue
    gpio_manager_initialized, \* WeightMonitor.gpio_manager_initialized
    led_initialized,    \* WeightMonitor.led_initialized
    led_pin,            \* WeightMonitor.led_pin
    beep_queue,         \* WeightMonitor.beep_queue
    beep_lock,          \* holder of WeightMonitor.beep_lock, or "free"
    led_pc,             \* position of each thread inside led_alert / the drain
    led_duration,       \* the duration argument each thread is working on
    flash_i,            \* loop index of _execute_led_sync
    led_writers,        \* threads that wrote the LED pin for an alert
    led_enqueued,       \* the durations appended to beep_queue, in order
    led_executed,       \* the durations the drain passed to _execute_led_sync, in order
    \* ---- hx711.py
    hx_pin_states,      \* hx711.MockGPIO._pin_states (used when RPi.GPIO is missing)
    \* ---- observation of the last pin a driver configured or wrote
    drive,
    \* ---- hx711.py: fields of the HX711 instance
    hx_gain,            \* HX711.gain
    gain_pulses,        \* HX711.gain_pulses
    hx_offset,          \* HX711.offset, the fraction <<numerator, denominator>>
    simulate_weight,    \* HX711._simulate_weight
    \* ---- hx711.py: the read_raw call in progress
    hx_pc,              \* position inside read_raw ("none" before construction)
    retry_count,        \* local retry_count
    hx_value,           \* local value
    hx_i,               \* loop index i of the two for loops
    \* ---- the HX711 device on the data line
    dev_word,           \* the 24-bit conversion the device shifts out
    dev_edges,          \* rising clock edges the device has seen in this read
    \* ---- observations of the read_raw call
    polled_low,         \* some poll of the handshake read the data line low
    found_ready,        \* the last is_ready() of the handshake returned True
    sck_writes,         \* levels written to the clock pin, in order
    sample_sck,         \* levels of the clock pin at the moments DT was sampled
    sampled,            \* the bits sampled, in order
    hx_last,            \* how the last read_raw returned, what, and the offset it saw
    \* ---- hx711.py: weighing
    hx_coefficient,     \* HX711.coefficient, the fraction <<numerator, denominator>>
    weight_buffer,      \* HX711.weight_buffer
    is_calibrated,      \* HX711.is_calibrated
    \* ---- observations of the weighing
    weights,            \* what get_weight returned to each get_stable_weight call
    w_last              \* the last call of tare, get_weight or get_stable_weight

regVars == <<GPIO_AVAILABLE, gpio_initialized, gpio_mode, allocated_pins, pin_states>>
raceVars == <<thr_pc, thr_pin, granted>>
monVars == <<music_playing, buzzer, music_thread, created, mon_pc>>
buzVars == <<stop_playing, buzzer_initialized, mel_pc, note_i, cycle_i>>
toneVars == <<tone_local, tone_writes, write_errors, played, gaps>>
obsVars == <<highs_after_stop, started_after_stop, exit_level, cleaned, refused, refused,
            toneVars>>
musicVars == <<monVars, buzVars, obsVars>>
ledVars == <<gpio_manager_initialized, led_initialized, led_pin, beep_queue, beep_lock,
             led_pc, led_duration, flash_i, led_writers, led_enqueued, led_executed>>
drvVars == <<hx_pin_states, drive>>
wVars == <<hx_coefficient, weight_buffer, is_calibrated, weights, w_last>>
hxVars == <<hx_gain, gain_pulses, hx_offset, simulate_weight, hx_pc, retry_count,
            hx_value, hx_i, dev_word, dev_edges, polled_low, found_ready,
            sck_writes, sample_sck, sampled, hx_last, wVars>>
vars == <<regVars, last, raceVars, musicVars, ledVars, drvVars, hxVars>>

\* what the actions of one specification leave alone
nonRegVars == <<raceVars, musicVars, ledVars, drvVars, hxVars>>
nonRaceVars == <<musicVars, ledVars, drvVars, hxVars>>
nonMusicVars == <<raceVars, ledVars, drvVars, hxVars>>
nonLedVars == <<raceVars, musicVars, drvVars, hxVars>>
nonHxVars == <<GPIO_AVAILABLE, gpio_initialized, gpio_mode, allocated_pins, last,
               raceVars, musicVars, ledVars, wVars>>

\* ------------------------------------------------------------------------
\* Program constants
\* ------------------------------------------------------------------------
None == "None"
BOARD == "BOARD"
BCM == "BCM"
HIGH == 1
LOW == 0

Modes == {BOARD, BCM}

\* ------------------------------------------------------------------------
\* Inputs of the registry specification
\* ------------------------------------------------------------------------
RegPins == {11, 12}
Modules == {"BadAppleBuzzer", "WeightMonitor"}
MaxCount == 2
ExcludeLists == {{}, {11, 12, 13}}

\* ------------------------------------------------------------------------
\* Inputs of the concurrent-allocation specification: two threads, each a
\* module of its own
\* ------------------------------------------------------------------------
Threads == {1, 2}
ThreadModule(t) == IF t = 1 THEN "BadAppleBuzzer" ELSE "WeightMonitor"
RacePins == {11, 12}

\* ------------------------------------------------------------------------
\* Inputs of the playback specification: the number of BadAppleBuzzer
\* instances the orchestrator may construct, and a short melody with the
\* shape of the table of play_melody (a tone, then a rest)
\* ------------------------------------------------------------------------
MaxBuzzers == 2
Buzzers == 1..MaxBuzzers
melody == <<2, 0>>
note_durations == <<16, 16>>

\* ------------------------------------------------------------------------
\* Inputs of the LED specification: the orchestrator thread and one
\* detection thread, the durations they ask for, the length of the queue
\* ------------------------------------------------------------------------
LedThreads == {"main", "worker"}
LedDurations == {2, 4}
MaxQueue == 2
MaxRequests == 3

\* ------------------------------------------------------------------------
\* The GPIO library: MockGPIO when RPi.GPIO is missing, else RPi.GPIO.
\* RPi.GPIO raises on a channel that has not been set up; MockGPIO never
\* raises.
\* ------------------------------------------------------------------------
GPIO_setup(ps, pin) == (pin :> LOW) @@ ps

GPIO_raises(ps, pin) == GPIO_AVAILABLE /\ pin \notin DOMAIN ps

GPIO_output_mutant_drop(ps, pin, value) == ps

GPIO_output(ps, pin, value) == (pin :> value) @@ ps

GPIO_input(ps, pin) == IF pin \in DOMAIN ps THEN ps[pin] ELSE LOW

GPIO_cleanup(ps, pin) == [q \in DOMAIN ps \ {pin} |-> ps[q]]

EmptyDict == [q \in {} |-> 0]

\* ------------------------------------------------------------------------
\* GPIOManager
\* ------------------------------------------------------------------------
\* None as a pin number
NoPin == 0 - 1

normalize_pin(pin) == IF gpio_mode \in Modes THEN pin ELSE NoPin

\* the numbering tables built by GPIOManager.__init__
bcm_to_board_mutant_duplicate ==
    (2 :> 3) @@ (3 :> 5) @@ (4 :> 7) @@ (5 :> 29) @@ (6 :> 31) @@ (7 :> 26) @@
    (8 :> 24) @@ (9 :> 21) @@ (10 :> 19) @@ (11 :> 23) @@ (12 :> 32) @@
    (13 :> 33) @@ (14 :> 8) @@ (15 :> 10) @@ (16 :> 36) @@ (17 :> 11) @@
    (18 :> 12) @@ (19 :> 35) @@ (20 :> 38) @@ (21 :> 40) @@ (22 :> 15) @@
    (23 :> 16) @@ (24 :> 18) @@ (25 :> 22) @@ (26 :> 37) @@ (27 :> 11)

bcm_to_board ==
    (2 :> 3) @@ (3 :> 5) @@ (4 :> 7) @@ (5 :> 29) @@ (6 :> 31) @@ (7 :> 26) @@
    (8 :> 24) @@ (9 :> 21) @@ (10 :> 19) @@ (11 :> 23) @@ (12 :> 32) @@
    (13 :> 33) @@ (14 :> 8) @@ (15 :> 10) @@ (16 :> 36) @@ (17 :> 11) @@
    (18 :> 12) @@ (19 :> 35) @@ (20 :> 38) @@ (21 :> 40) @@ (22 :> 15) @@
    (23 :> 16) @@ (24 :> 18) @@ (25 :> 22) @@ (26 :> 37) @@ (27 :> 13)

\* {v: k for k, v in bcm_to_board.items()}: the items are visited in the
\* order they were written (ascending keys), a later key replaces an
\* earlier one with the same value
board_to_bcm ==
    [q \in {bcm_to_board[k] : k \in DOMAIN bcm_to_board} |->
        CHOOSE k \in DOMAIN bcm_to_board :
            /\ bcm_to_board[k] = q
            /\ \A k2 \in DOMAIN bcm_to_board : bcm_to_board[k2] = q => k2 <= k]

\* dict.get(pin): None for a missing key
dict_get(table, pin) == IF pin \in DOMAIN table THEN table[pin] ELSE NoPin

\* the value returned by convert_pin(pin, from_mode, to_mode)
convert_pin_result(pin, from_mode, to_mode) ==
    LET to == IF to_mode = None THEN gpio_mode ELSE to_mode IN
    IF from_mode = to
    THEN pin
    ELSE IF from_mode = BCM /\ to = BOARD
    THEN dict_get(bcm_to_board, pin)
    ELSE IF from_mode = BOARD /\ to = BCM
    THEN dict_get(board_to_bcm, pin)
    ELSE NoPin

\* a driver configured or wrote pin: the driver, the pin and the owner the
\* registry records for the pin at that moment
Drive(by, pin, alloc) ==
    [by |-> by, pin |-> pin,
     owner |-> IF pin \in DOMAIN alloc THEN alloc[pin] ELSE None]

\* read_raw returned ret along path ("clocked", "fallback", "simulated";
\* "none" while no call has returned), with the offset it worked with
Returned(path, ret) == [path |-> path, ret |-> ret, offset |-> hx_offset]

Call(op, pin, who, val, ret, pins) ==
    [op |-> op, pin |-> pin, who |-> who, val |-> val, ret |-> ret, pins |-> pins,
     ex |-> {}]

\* the result of init_gpio(mode): return value and the new mode and flag
init_gpio_mutant_overwrite(mode) ==
    [ret |-> TRUE, mode |-> mode, init |-> TRUE]

init_gpio_mutant_always_true(mode) ==
    [ret |-> TRUE, mode |-> IF gpio_initialized THEN gpio_mode ELSE mode, init |-> TRUE]

init_gpio_result(mode) ==
    IF gpio_initialized
    THEN [ret |-> (gpio_mode = mode), mode |-> gpio_mode, init |-> gpio_initialized]
    ELSE [ret |-> TRUE, mode |-> mode, init |-> TRUE]

init_gpio(mode) ==
    LET r == init_gpio_result(mode) IN
    /\ gpio_mode' = r.mode
    /\ gpio_initialized' = r.init
    /\ last' = Call("init_gpio", 0, mode, 0, r.ret, << >>)
    /\ UNCHANGED <<GPIO_AVAILABLE, allocated_pins, pin_states>>

\* the result of allocate_pin(pin, module_name, pin_mode): return value, the
\* new ownership map and the new channel table
allocate_pin_mutant_steal(pin, module_name) ==
    IF ~gpio_initialized \/ normalize_pin(pin) = NoPin
    THEN [ret |-> FALSE, alloc |-> allocated_pins, ps |-> pin_states]
    ELSE [ret |-> TRUE,
          alloc |-> (pin :> module_name) @@ allocated_pins,
          ps |-> GPIO_setup(pin_states, pin)]

allocate_pin_mutant_uninit(pin, module_name) ==
    IF pin \in DOMAIN allocated_pins
    THEN [ret |-> (allocated_pins[pin] = module_name),
          alloc |-> allocated_pins, ps |-> pin_states]
    ELSE [ret |-> TRUE,
          alloc |-> (pin :> module_name) @@ allocated_pins,
          ps |-> GPIO_setup(pin_states, pin)]

allocate_pin_result(pin, module_name) ==
    IF ~gpio_initialized
    THEN [ret |-> FALSE, alloc |-> allocated_pins, ps |-> pin_states]
    ELSE IF normalize_pin(pin) = NoPin
    THEN [ret |-> FALSE, alloc |-> allocated_pins, ps |-> pin_states]
    ELSE IF pin \in DOMAIN allocated_pins
    THEN [ret |-> (allocated_pins[pin] = module_name),
          alloc |-> allocated_pins, ps |-> pin_states]
    ELSE [ret |-> TRUE,
          alloc |-> (pin :> module_name) @@ allocated_pins,
          ps |-> GPIO_setup(pin_states, pin)]

allocate_pin(pin, module_name) ==
    LET r == allocate_pin_result(pin, module_name) IN
    /\ allocated_pins' = r.alloc
    /\ pin_states' = r.ps
    /\ last' = Call("allocate_pin", pin, module_name, 0, r.ret, << >>)
    /\ UNCHANGED <<GPIO_AVAILABLE, gpio_initialized, gpio_mode>>

\* the result of release_pin(pin, module_name): the new ownership map and
\* channel table (GPIO.cleanup(pin) only with the real library)
release_pin_mutant_clear(pin, module_name) ==
    IF normalize_pin(pin) # NoPin /\ pin \in DOMAIN allocated_pins
       /\ allocated_pins[pin] = module_name
    THEN [alloc |-> EmptyDict,
          ps |-> IF GPIO_AVAILABLE THEN GPIO_cleanup(pin_states, pin) ELSE pin_states]
    ELSE [alloc |-> allocated_pins, ps |-> pin_states]

release_pin_mutant_any_owner(pin, module_name) ==
    IF normalize_pin(pin) # NoPin /\ pin \in DOMAIN allocated_pins
    THEN [alloc |-> [q \in DOMAIN allocated_pins \ {pin} |-> allocated_pins[q]],
          ps |-> IF GPIO_AVAILABLE THEN GPIO_cleanup(pin_states, pin) ELSE pin_states]
    ELSE [alloc |-> allocated_pins, ps |-> pin_states]

release_pin_result(pin, module_name) ==
    IF normalize_pin(pin) = NoPin
    THEN [alloc |-> allocated_pins, ps |-> pin_states]
    ELSE IF pin \in DOMAIN allocated_pins /\ allocated_pins[pin] = module_name
    THEN [alloc |-> [q \in DOMAIN allocated_pins \ {pin} |-> allocated_pins[q]],
          ps |-> IF GPIO_AVAILABLE THEN GPIO_cleanup(pin_states, pin) ELSE pin_states]
    ELSE [alloc |-> allocated_pins, ps |-> pin_states]

release_pin(pin, module_name) ==
    LET r == release_pin_result(pin, module_name) IN
    /\ allocated_pins' = r.alloc
    /\ pin_states' = r.ps
    /\ last' = Call("release_pin", pin, module_name, 0, r.alloc # allocated_pins, << >>)
    /\ UNCHANGED <<GPIO_AVAILABLE, gpio_initialized, gpio_mode>>

output_result_mutant_unowned(pin, value) ==
    IF normalize_pin(pin) # NoPin /\ pin # 0 /\ ~GPIO_raises(pin_states, pin)
    THEN [ret |-> TRUE, ps |-> GPIO_output(pin_states, pin, value)]
    ELSE [ret |-> FALSE, ps |-> pin_states]

\* the result of output(pin, value): the caller is not an argument of the
\* code; any pin with an ownership record is written
output_result(pin, value) ==
    IF normalize_pin(pin) # NoPin /\ pin # 0 /\ pin \in DOMAIN allocated_pins
       /\ ~GPIO_raises(pin_states, pin)
    THEN [ret |-> TRUE, ps |-> GPIO_output(pin_states, pin, value)]
    ELSE [ret |-> FALSE, ps |-> pin_states]

output(pin, value, caller) ==
    LET r == output_result(pin, value) IN
    /\ pin_states' = r.ps
    /\ last' = Call("output", pin, caller, value, r.ret, << >>)
    /\ UNCHANGED <<GPIO_AVAILABLE, gpio_initialized, gpio_mode, allocated_pins>>

\* the value returned by input(pin)
input_result(pin) ==
    IF normalize_pin(pin) # NoPin /\ pin # 0 /\ pin \in DOMAIN allocated_pins
       /\ ~GPIO_raises(pin_states, pin)
    THEN GPIO_input(pin_states, pin)
    ELSE 0

input(pin, caller) ==
    /\ last' = Call("input", pin, caller, input_result(pin), TRUE, << >>)
    /\ UNCHANGED regVars

\* the result of test_pin(pin): return value and the new channel table
test_pin_mutant_owned(ps, pin) ==
    IF ~gpio_initialized \/ normalize_pin(pin) = NoPin
    THEN [ret |-> FALSE, ps |-> ps]
    ELSE LET ps1 == GPIO_output(GPIO_setup(ps, pin), pin, LOW)
             low_state == GPIO_input(ps1, pin)
             ps2 == GPIO_output(ps1, pin, HIGH)
             high_state == GPIO_input(ps2, pin)
             ps3 == GPIO_output(ps2, pin, LOW)
         IN  [ret |-> (low_state = 0 /\ high_state = 1),
              ps |-> IF GPIO_AVAILABLE THEN GPIO_cleanup(ps3, pin) ELSE ps3]

test_pin_result(ps, pin) ==
    IF ~gpio_initialized \/ normalize_pin(pin) = NoPin \/ pin \in DOMAIN allocated_pins
    THEN [ret |-> FALSE, ps |-> ps]
    ELSE LET ps1 == GPIO_output(GPIO_setup(ps, pin), pin, LOW)
             low_state == GPIO_input(ps1, pin)
             ps2 == GPIO_output(ps1, pin, HIGH)
             high_state == GPIO_input(ps2, pin)
             ps3 == GPIO_output(ps2, pin, LOW)
         IN  [ret |-> (low_state = 0 /\ high_state = 1),
              ps |-> IF GPIO_AVAILABLE THEN GPIO_cleanup(ps3, pin) ELSE ps3]

test_pin(pin) ==
    LET r == test_pin_result(pin_states, pin) IN
    /\ pin_states' = r.ps
    /\ last' = Call("test_pin", pin, "test", 0, r.ret, << >>)
    /\ UNCHANGED <<GPIO_AVAILABLE, gpio_initialized, gpio_mode, allocated_pins>>

safe_pins_BOARD ==
    <<11, 12, 13, 15, 16, 18, 19, 21, 22, 23, 24, 26, 29, 31, 32, 33, 35, 36, 37, 38, 40>>

safe_pins_BCM ==
    <<17, 18, 27, 22, 23, 24, 10, 9, 25, 11, 8, 7, 5, 6, 12, 13, 19, 16, 26, 20, 21>>

safe_pins == IF gpio_mode = BOARD THEN safe_pins_BOARD ELSE safe_pins_BCM

\* the loop of find_available_pins from index i of safe_pins on, with the
\* channel table ps and the list found so far
RECURSIVE find_loop(_, _, _, _, _)
find_loop(i, ps, available_pins, count, exclude_pins) ==
    IF i > Len(safe_pins)
    THEN [pins |-> available_pins, ps |-> ps]
    ELSE LET pin == safe_pins[i] IN
         IF pin \notin exclude_pins /\ pin \notin DOMAIN allocated_pins
         THEN LET t == test_pin_result(ps, pin) IN
              IF t.ret
              THEN IF Len(available_pins) + 1 >= count
                   THEN [pins |-> Append(available_pins, pin), ps |-> t.ps]
                   ELSE find_loop(i + 1, t.ps, Append(available_pins, pin), count, exclude_pins)
              ELSE find_loop(i + 1, t.ps, available_pins, count, exclude_pins)
         ELSE find_loop(i + 1, ps, available_pins, count, exclude_pins)

find_available_pins_mutant_no_exclude(count, exclude_pins) ==
    find_loop(1, pin_states, << >>, count, {})

find_available_pins_result(count, exclude_pins) ==
    find_loop(1, pin_states, << >>, count, exclude_pins)

find_available_pins(count, exclude_pins) ==
    LET r == find_available_pins_result(count, exclude_pins) IN
    /\ pin_states' = r.ps
    /\ last' = [Call("find_available_pins", 0, "test", count, TRUE, r.pins)
                    EXCEPT !.ex = exclude_pins]
    /\ UNCHANGED <<GPIO_AVAILABLE, gpio_initialized, gpio_mode, allocated_pins>>

\* the result of cleanup_all(force)
cleanup_all_result(force) ==
    IF force \/ Cardinality(DOMAIN allocated_pins) > 0
    THEN [alloc |-> EmptyDict, init |-> FALSE, mode |-> None,
          ps |-> IF GPIO_AVAILABLE THEN EmptyDict ELSE pin_states]
    ELSE [alloc |-> allocated_pins, init |-> gpio_initialized, mode |-> gpio_mode,
          ps |-> pin_states]

cleanup_all(force) ==
    LET r == cleanup_all_result(force) IN
    /\ allocated_pins' = r.alloc
    /\ gpio_initialized' = r.init
    /\ gpio_mode' = r.mode
    /\ pin_states' = r.ps
    /\ last' = Call("cleanup_all", 0, "test", 0, force, << >>)
    /\ UNCHANGED GPIO_AVAILABLE

\* ------------------------------------------------------------------------
\* Python floats: IEEE-754 doubles, round to nearest, ties to even. A
\* natural number below 2^80 is five limbs of 16 bits, the most significant
\* first; a double is a mantissa m of 53 bits (the first one 1) and the
\* exponent exp of its last bit, so that its value is m * 2^exp; zero is the
\* mantissa 0
\* ------------------------------------------------------------------------
LimbBase == 65536

Double(m, exp) == [m |-> m, exp |-> exp]

DoubleZero == Double(<<0, 0, 0, 0, 0>>, 0)

\* X * n for 0 <= n <= 2^15
MulSmall(X, n) ==
    LET t5 == X[5] * n
        t4 == X[4] * n + t5 \div LimbBase
        t3 == X[3] * n + t4 \div LimbBase
        t2 == X[2] * n + t3 \div LimbBase
        t1 == X[1] * n + t2 \div LimbBase
    IN  <<t1 % LimbBase, t2 % LimbBase, t3 % LimbBase, t4 % LimbBase, t5 % LimbBase>>

\* the quotient and the remainder of X by n, for 0 < n <= 2^15
DivSmall(X, n) ==
    LET t1 == X[1]
        t2 == (t1 % n) * LimbBase + X[2]
        t3 == (t2 % n) * LimbBase + X[3]
        t4 == (t3 % n) * LimbBase + X[4]
        t5 == (t4 % n) * LimbBase + X[5]
    IN  [q |-> <<t1 \div n, t2 \div n, t3 \div n, t4 \div n, t5 \div n>>, r |-> t5 % n]

\* X + 1
AddOne(X) ==
    LET t5 == X[5] + 1
        t4 == X[4] + t5 \div LimbBase
        t3 == X[3] + t4 \div LimbBase
        t2 == X[2] + t3 \div LimbBase
        t1 == X[1] + t2 \div LimbBase
    IN  <<t1 % LimbBase, t2 % LimbBase, t3 % LimbBase, t4 % LimbBase, t5 % LimbBase>>

\* the number of binary digits of X
BitLen(X) ==
    IF \A i \in 1..5 : X[i] = 0
    THEN 0
    ELSE LET j == CHOOSE i \in 1..5 : X[i] # 0 /\ \A h \in 1..(i - 1) : X[h] = 0
             k == CHOOSE d \in 1..16 : 2 ^ (d - 1) <= X[j] /\ X[j] < 2 ^ d
         IN  (5 - j) * 16 + k

\* X * 2^s
ShiftLeft(X, s) ==
    LET j == s \div 16
    IN  MulSmall([i \in 1..5 |-> IF i + j <= 5 THEN X[i + j] ELSE 0], 2 ^ (s % 16))

\* X \div 2^s
ShiftRight(X, s) ==
    LET j == s \div 16
    IN  DivSmall([i \in 1..5 |-> IF i - j >= 1 THEN X[i - j] ELSE 0], 2 ^ (s % 16)).q

\* the double nearest to X * 2^exp (plus a non-zero rest below the last
\* digit of X when sticky), for X of at most 68 digits
RoundTo53(X, exp, sticky) ==
    LET len == BitLen(X) IN
    IF len = 0
    THEN DoubleZero
    ELSE IF len <= 53
    THEN Double(ShiftLeft(X, 53 - len), exp - (53 - len))
    ELSE LET s == len - 53
             d == DivSmall(X, 2 ^ s)
             half == 2 ^ (s - 1)
             guard == d.r >= half
             rest == sticky \/ d.r % half # 0
             up == AddOne(d.q)
         IN  IF guard /\ (rest \/ d.q[5] % 2 = 1)
             THEN IF BitLen(up) = 54
                  THEN Double(ShiftRight(up, 1), exp + s + 1)
                  ELSE Double(up, exp + s)
             ELSE Double(d.q, exp + s)

\* float(n) for a natural number n below 2^31
FromInt(n) == RoundTo53(<<0, 0, 0, n \div LimbBase, n % LimbBase>>, 0, FALSE)

\* x / float(n) for a natural number 0 < n < 2^12
DivInt(x, n) ==
    LET d == DivSmall(ShiftLeft(x.m, 13), n)
    IN  RoundTo53(d.q, x.exp - 13, d.r # 0)

\* x * float(n) for a natural number n below 2^15
MulInt(x, n) == RoundTo53(MulSmall(x.m, n), x.exp, FALSE)

\* int(x) for a double 0 <= x < 2^31: zero, or a negative exponent
TruncToInt(x) ==
    IF x.exp >= 0 \/ 0 - x.exp >= 53
    THEN 0
    ELSE LET y == ShiftRight(x.m, 0 - x.exp) IN y[4] * LimbBase + y[5]

\* the arguments of a call tone(frequency, duration): duration is the double
\* the caller computed from the fraction arg; cycles is the local of line 225
ToneCall(frequency, arg, duration, caller) ==
    [frequency |-> frequency, arg |-> arg, duration |-> duration,
     cycles |-> 0, caller |-> caller, stopped |-> FALSE]

\* ------------------------------------------------------------------------
\* WeightMonitor.__init__ (main.py) : no buzzer, no music thread
\* ------------------------------------------------------------------------
InitMonitor ==
    /\ music_playing = FALSE
    /\ buzzer = 0
    /\ music_thread = 0
    /\ created = 0
    /\ mon_pc = "idle"
    /\ stop_playing = [b \in Buzzers |-> FALSE]
    /\ buzzer_initialized = [b \in Buzzers |-> FALSE]
    /\ mel_pc = [b \in Buzzers |-> "none"]
    /\ note_i = [b \in Buzzers |-> 0]
    /\ cycle_i = [b \in Buzzers |-> 0]
    /\ highs_after_stop = [b \in Buzzers |-> 0]
    /\ started_after_stop = [b \in Buzzers |-> FALSE]
    /\ exit_level = [b \in Buzzers |-> LOW]
    /\ cleaned = [b \in Buzzers |-> FALSE]
    /\ refused = [b \in Buzzers |-> FALSE]
    /\ tone_local = [b \in Buzzers |-> ToneCall(0, <<0, 1>>, DoubleZero, "none")]
    /\ tone_writes = [b \in Buzzers |-> << >>]
    /\ write_errors = [b \in Buzzers |-> FALSE]
    /\ played = [b \in Buzzers |-> << >>]
    /\ gaps = [b \in Buzzers |-> 0]
    /\ gpio_manager_initialized = FALSE
    /\ led_initialized = FALSE
    /\ led_pin = 19
    /\ beep_queue = << >>
    /\ beep_lock = "free"
    /\ led_pc = [t \in LedThreads |-> "idle"]
    /\ led_duration = [t \in LedThreads |-> 0]
    /\ flash_i = [t \in LedThreads |-> 0]
    /\ led_writers = {}
    /\ led_enqueued = << >>
    /\ led_executed = << >>
    /\ hx_pin_states = EmptyDict
    /\ drive = Drive(None, 0, EmptyDict)
    /\ hx_gain = 128
    /\ gain_pulses = 0
    /\ hx_offset = <<41562, 1>>
    /\ simulate_weight = FALSE
    /\ hx_pc = "none"
    /\ retry_count = 0
    /\ hx_value = 0
    /\ hx_i = 0
    /\ dev_word = 0
    /\ dev_edges = 0
    /\ polled_low = FALSE
    /\ found_ready = FALSE
    /\ sck_writes = << >>
    /\ sample_sck = {}
    /\ sampled = << >>
    /\ hx_last = Returned("none", 0)
    /\ hx_coefficient = <<127551, 100000000>>
    /\ weight_buffer = << >>
    /\ is_calibrated = FALSE
    /\ weights = << >>
    /\ w_last = [op |-> "HX711", raw |-> <<0, 1>>, weight |-> <<0, 1>>, ret |-> <<0, 1>>,
                 file |-> FALSE, reads |-> << >>]

\* ------------------------------------------------------------------------
\* Specification of the registry: one caller at a time, any operation with
\* any argument
\* ------------------------------------------------------------------------
InitReg ==
    /\ GPIO_AVAILABLE \in BOOLEAN
    /\ gpio_initialized = FALSE
    /\ gpio_mode = None
    /\ allocated_pins = EmptyDict
    /\ pin_states = EmptyDict
    /\ last = Call("new", 0, None, 0, TRUE, << >>)
    /\ thr_pc = [t \in Threads |-> "idle"]
    /\ thr_pin = [t \in Threads |-> 0]
    /\ granted = [t \in Threads |-> {}]
    /\ InitMonitor

RegInit == \E mode \in Modes : init_gpio(mode) /\ UNCHANGED nonRegVars
RegAllocate == \E pin \in RegPins, m \in Modules : allocate_pin(pin, m) /\ UNCHANGED nonRegVars
RegRelease == \E pin \in RegPins, m \in Modules : release_pin(pin, m) /\ UNCHANGED nonRegVars
RegOutput == \E pin \in RegPins, v \in {LOW, HIGH}, m \in Modules : output(pin, v, m) /\ UNCHANGED nonRegVars
RegInput == \E pin \in RegPins, m \in Modules : input(pin, m) /\ UNCHANGED nonRegVars
RegTestPin == \E pin \in RegPins : test_pin(pin) /\ UNCHANGED nonRegVars
RegFind == \E count \in 0..MaxCount, ex \in ExcludeLists : find_available_pins(count, ex) /\ UNCHANGED nonRegVars
RegCleanupAll == \E force \in BOOLEAN : cleanup_all(force) /\ UNCHANGED nonRegVars

NextReg ==
    \/ RegInit
    \/ RegAllocate
    \/ RegRelease
    \/ RegOutput
    \/ RegInput
    \/ RegTestPin
    \/ RegFind
    \/ RegCleanupAll

SpecReg == InitReg /\ [][NextReg]_vars

Owned(pin) == pin \in DOMAIN allocated_pins

OwnedByOther(pin, who) == Owned(pin) /\ allocated_pins[pin] # who

\* ------------------------------------------------------------------------
\* Specification of the numbering translation: convert_pin called with any
\* header pin number (or None) and any pair of modes, to_mode None included,
\* before and after init_gpio
\* ------------------------------------------------------------------------
ConvPins == {NoPin} \cup (1..40)

convert_pin(pin, from_mode, to_mode) ==
    /\ last' = Call("convert_pin", pin, <<from_mode, to_mode>>, 0,
                    convert_pin_result(pin, from_mode, to_mode), << >>)
    /\ UNCHANGED regVars

ConvInit == \E mode \in Modes : init_gpio(mode) /\ UNCHANGED nonRegVars
ConvConvert ==
    \E pin \in ConvPins, from_mode \in Modes, to_mode \in Modes \cup {None} :
        convert_pin(pin, from_mode, to_mode) /\ UNCHANGED nonRegVars

NextConv ==
    \/ ConvInit
    \/ ConvConvert

SpecConv == InitReg /\ [][NextConv]_vars

\* ------------------------------------------------------------------------
\* Specification of concurrent allocation.  init_gpio runs under
\* initialization_lock and is one step.  allocate_pin takes no lock: its
\* checks (lines 152-170), GPIO.setup (line 174) and the write of the
\* ownership record (line 175) are separate steps of the calling thread.
\* ------------------------------------------------------------------------
InitRace ==
    /\ InitReg

RaceInitGpio ==
    /\ init_gpio(BOARD)
    /\ UNCHANGED nonRegVars

\* allocate_pin lines 152-170: the checks made before the pin is configured
allocate_pin_check(t, pin) ==
    /\ thr_pc[t] = "idle"
    /\ IF ~gpio_initialized \/ normalize_pin(pin) = NoPin
       THEN /\ last' = Call("allocate_pin", pin, ThreadModule(t), 0, FALSE, << >>)
            /\ UNCHANGED <<thr_pc, thr_pin, granted>>
       ELSE IF pin \in DOMAIN allocated_pins
       THEN /\ last' = Call("allocate_pin", pin, ThreadModule(t), 0,
                            allocated_pins[pin] = ThreadModule(t), << >>)
            /\ granted' = IF allocated_pins[pin] = ThreadModule(t)
                          THEN [granted EXCEPT ![t] = @ \cup {pin}]
                          ELSE granted
            /\ UNCHANGED <<thr_pc, thr_pin>>
       ELSE /\ thr_pc' = [thr_pc EXCEPT ![t] = "setup"]
            /\ thr_pin' = [thr_pin EXCEPT ![t] = pin]
            /\ UNCHANGED <<last, granted>>
    /\ UNCHANGED <<regVars, nonRaceVars>>

\* allocate_pin line 174
allocate_pin_setup(t) ==
    /\ thr_pc[t] = "setup"
    /\ pin_states' = GPIO_setup(pin_states, thr_pin[t])
    /\ thr_pc' = [thr_pc EXCEPT ![t] = "record"]
    /\ UNCHANGED <<GPIO_AVAILABLE, gpio_initialized, gpio_mode, allocated_pins,
                   last, thr_pin, granted, nonRaceVars>>

\* allocate_pin lines 175-177
allocate_pin_record(t) ==
    /\ thr_pc[t] = "record"
    /\ allocated_pins' = (thr_pin[t] :> ThreadModule(t)) @@ allocated_pins
    /\ granted' = [granted EXCEPT ![t] = @ \cup {thr_pin[t]}]
    /\ last' = Call("allocate_pin", thr_pin[t], ThreadModule(t), 0, TRUE, << >>)
    /\ thr_pc' = [thr_pc EXCEPT ![t] = "idle"]
    /\ thr_pin' = [thr_pin EXCEPT ![t] = 0]
    /\ UNCHANGED <<GPIO_AVAILABLE, gpio_initialized, gpio_mode, pin_states, nonRaceVars>>

RaceAllocateCheck == \E t \in Threads, pin \in RacePins : allocate_pin_check(t, pin)
RaceAllocateSetup == \E t \in Threads : allocate_pin_setup(t)
RaceAllocateRecord == \E t \in Threads : allocate_pin_record(t)

RaceRelease ==
    \E t \in Threads, pin \in RacePins :
        /\ thr_pc[t] = "idle"
        /\ release_pin(pin, ThreadModule(t))
        /\ granted' = [granted EXCEPT ![t] = @ \ {pin}]
        /\ UNCHANGED <<thr_pc, thr_pin, nonRaceVars>>

NextRace ==
    \/ RaceInitGpio
    \/ RaceAllocateCheck
    \/ RaceAllocateSetup
    \/ RaceAllocateRecord
    \/ RaceRelease

SpecRace == InitRace /\ [][NextRace]_vars

\* C2: of two allocate calls for the same free pin made by two threads for
\* two distinct owners, at most one is told it succeeded, and the pin is
\* recorded for the caller that was told so.
C2_OneWinner ==
    \A t \in Threads : \A pin \in granted[t] :
        /\ \A u \in Threads \ {t} : pin \notin granted[u]
        /\ Owned(pin) /\ allocated_pins[pin] = ThreadModule(t)

\* ------------------------------------------------------------------------
\* BadAppleBuzzer (beep.py)
\* ------------------------------------------------------------------------
BEEP_PIN_BOARD == 12
bpm == 137
ndms == 12000

Level(pin) == GPIO_input(pin_states, pin)

\* tone line 225: int((duration / 1000.0) * frequency), in doubles
tone_cycles(frequency, duration) ==
    TruncToInt(MulInt(DivInt(duration, 1000), frequency))

\* play_melody line 551: ndms * note_durations[i] / bpm, an integer product
\* and a true division, for every index of the list
note_duration_table ==
    [k \in 1..Len(melody) |-> DivInt(FromInt(ndms * note_durations[k]), bpm)]

\* note_duration of note i (0-based)
note_duration(i) == note_duration_table[i + 1]

\* range(total_notes): the index after i
next_note_mutant_skip(i) == i + 2

next_note(i) == i + 1

\* where a tone call returns to: the gap of play_melody, or the caller of a
\* direct call
tone_return(b) == IF tone_local[b].caller = "play_melody" THEN "pause" ELSE "ready"

\* setup_gpio lines 153-168 through the GPIO manager: initialize the manager
\* if it is not, allocate the pin, drive it low
setup_gpio_result(pin) ==
    LET a == IF gpio_initialized
             THEN allocate_pin_result(pin, "BadAppleBuzzer")
             ELSE [ret |-> TRUE,
                   alloc |-> (pin :> "BadAppleBuzzer") @@ allocated_pins,
                   ps |-> GPIO_setup(pin_states, pin)]
    IN  [ok |-> a.ret,
         init |-> TRUE,
         mode |-> IF gpio_initialized THEN gpio_mode ELSE BOARD,
         alloc |-> a.alloc,
         ps |-> IF a.ret /\ ~(GPIO_AVAILABLE /\ pin \notin DOMAIN a.ps)
                THEN GPIO_output(a.ps, pin, LOW) ELSE a.ps]

\* play_melody line 545: the stop check at the top of every note
play_melody_continues(b) == ~stop_playing[b]

\* tone line 229: the stop check at the top of every cycle
tone_continues_mutant_ignores_stop(b) == TRUE

tone_continues(b) == ~stop_playing[b]

\* play_melody lines 544-547: end of the list, break on the stop flag, or
\* start note i
play_melody_loop(b) ==
    /\ mel_pc[b] = "loop"
    /\ IF note_i[b] >= Len(melody) \/ ~play_melody_continues(b)
       THEN /\ mel_pc' = [mel_pc EXCEPT ![b] = "finally"]
            /\ UNCHANGED <<started_after_stop, tone_local, played>>
       ELSE /\ mel_pc' = [mel_pc EXCEPT ![b] = "tone"]
            /\ started_after_stop' =
                   [started_after_stop EXCEPT ![b] = @ \/ stop_playing[b]]
            /\ tone_local' =
                   [tone_local EXCEPT ![b] =
                       ToneCall(melody[note_i[b] + 1],
                                <<ndms * note_durations[note_i[b] + 1], bpm>>,
                                note_duration(note_i[b]), "play_melody")]
            /\ played' =
                   [played EXCEPT ![b] =
                       Append(@, <<melody[note_i[b] + 1], note_duration(note_i[b])>>)]
    /\ UNCHANGED <<regVars, last, monVars, stop_playing, buzzer_initialized,
                   note_i, cycle_i, highs_after_stop, exit_level, cleaned, refused,
                   tone_writes, write_errors, gaps>>

\* tone lines 212-225: nothing without the pin, a sleep for a rest, else the
\* cycle loop
tone_enter(b) ==
    /\ mel_pc[b] = "tone"
    /\ IF ~buzzer_initialized[b] \/ tone_local[b].frequency = 0
       THEN /\ mel_pc' = [mel_pc EXCEPT ![b] = tone_return(b)]
            /\ UNCHANGED tone_local
       ELSE /\ mel_pc' = [mel_pc EXCEPT ![b] = "cycle"]
            /\ tone_local' =
                   [tone_local EXCEPT ![b].cycles =
                       tone_cycles(tone_local[b].frequency, tone_local[b].duration)]
    /\ cycle_i' = [cycle_i EXCEPT ![b] = 0]
    /\ tone_writes' = [tone_writes EXCEPT ![b] = << >>]
    /\ UNCHANGED <<regVars, last, monVars, stop_playing, buzzer_initialized,
                   note_i, highs_after_stop, started_after_stop, exit_level, cleaned, refused, refused,
                   write_errors, played, gaps>>

\* tone lines 228-230: the head of the cycle loop
tone_cycle(b) ==
    /\ mel_pc[b] = "cycle"
    /\ IF cycle_i[b] >= tone_local[b].cycles \/ ~tone_continues(b)
       THEN /\ mel_pc' = [mel_pc EXCEPT ![b] = tone_return(b)]
            /\ UNCHANGED highs_after_stop
       ELSE /\ mel_pc' = [mel_pc EXCEPT ![b] = "high"]
            /\ highs_after_stop' =
                   [highs_after_stop EXCEPT ![b] = IF stop_playing[b] THEN @ + 1 ELSE @]
    /\ UNCHANGED <<regVars, last, monVars, stop_playing, buzzer_initialized,
                   note_i, cycle_i, started_after_stop, exit_level, cleaned, refused, toneVars>>

\* _gpio_output line 198 and GPIOManager.output lines 227-228: the checks
\* made before GPIO.output
gpio_output_allowed(b, pin) ==
    /\ buzzer_initialized[b]
    /\ normalize_pin(pin) # NoPin /\ pin # 0 /\ pin \in DOMAIN allocated_pins

\* tone lines 231-234: the checks of one _gpio_output call of the thread;
\* without the pin _gpio_output returns at once, and a pin the registry
\* does not list makes output() return False, which _gpio_output ignores
tone_output_check(b) ==
    /\ mel_pc[b] \in {"high", "low"}
    /\ IF gpio_output_allowed(b, BEEP_PIN_BOARD)
       THEN /\ mel_pc' = [mel_pc EXCEPT ![b] = IF @ = "high" THEN "high_write" ELSE "low_write"]
            /\ UNCHANGED <<cycle_i, tone_writes, write_errors>>
       ELSE /\ mel_pc' = [mel_pc EXCEPT ![b] = IF @ = "high" THEN "low" ELSE "cycle"]
            /\ cycle_i' = [cycle_i EXCEPT ![b] = IF mel_pc[b] = "low" THEN @ + 1 ELSE @]
            /\ tone_writes' =
                   [tone_writes EXCEPT ![b] =
                       IF buzzer_initialized[b]
                       THEN Append(@, IF mel_pc[b] = "high" THEN HIGH ELSE LOW)
                       ELSE @]
            /\ write_errors' = [write_errors EXCEPT ![b] = @ \/ buzzer_initialized[b]]
    /\ UNCHANGED <<regVars, last, monVars, stop_playing, buzzer_initialized,
                   note_i, highs_after_stop, started_after_stop, exit_level, cleaned, refused, refused,
                   tone_local, played, gaps>>

\* where the thread goes after GPIO.output: an exception of the library is
\* caught inside GPIOManager.output (lines 229-233), which returns False;
\* _gpio_output ignores the result and the loop of tone goes on
after_write_mutant_abort(b, raised) ==
    IF raised THEN tone_return(b)
    ELSE IF mel_pc[b] = "high_write" THEN "low" ELSE "cycle"

after_write(b, raised) == IF mel_pc[b] = "high_write" THEN "low" ELSE "cycle"

\* GPIOManager.output lines 229-233: GPIO.output; RPi.GPIO raises on a
\* channel that is not set up, or when fault says so
tone_output_write(b, fault) ==
    /\ mel_pc[b] \in {"high_write", "low_write"}
    /\ fault => GPIO_AVAILABLE
    /\ LET raised == fault \/ GPIO_raises(pin_states, BEEP_PIN_BOARD)
           value == IF mel_pc[b] = "high_write" THEN HIGH ELSE LOW
       IN  /\ pin_states' =
                  IF raised THEN pin_states
                  ELSE GPIO_output(pin_states, BEEP_PIN_BOARD, value)
           /\ mel_pc' = [mel_pc EXCEPT ![b] = after_write(b, raised)]
           /\ tone_writes' = [tone_writes EXCEPT ![b] = Append(@, value)]
           /\ write_errors' = [write_errors EXCEPT ![b] = @ \/ raised]
    /\ cycle_i' = [cycle_i EXCEPT ![b] = IF mel_pc[b] = "low_write" THEN @ + 1 ELSE @]
    /\ UNCHANGED <<GPIO_AVAILABLE, gpio_initialized, gpio_mode, allocated_pins,
                   last, monVars, stop_playing, buzzer_initialized, note_i,
                   highs_after_stop, started_after_stop, exit_level, cleaned, refused,
                   tone_local, played, gaps>>

\* play_melody lines 556-558: the gap between two notes
play_melody_pause(b) ==
    /\ mel_pc[b] = "pause"
    /\ note_i' = [note_i EXCEPT ![b] = next_note(@)]
    /\ gaps' = [gaps EXCEPT ![b] = @ + 1]
    /\ mel_pc' = [mel_pc EXCEPT ![b] = "loop"]
    /\ UNCHANGED <<regVars, last, monVars, stop_playing, buzzer_initialized,
                   cycle_i, highs_after_stop, started_after_stop, exit_level, cleaned, refused,
                   tone_local, tone_writes, write_errors, played>>

\* main.py lines 107-109: the finally of play_music, then the thread ends
play_music_finally(b) ==
    /\ mel_pc[b] = "finally"
    /\ music_playing' = FALSE
    /\ mel_pc' = [mel_pc EXCEPT ![b] = "done"]
    /\ exit_level' = [exit_level EXCEPT ![b] = Level(BEEP_PIN_BOARD)]
    /\ UNCHANGED <<regVars, last, buzzer, music_thread, created, mon_pc,
                   stop_playing, buzzer_initialized, note_i, cycle_i,
                   highs_after_stop, started_after_stop, cleaned, refused, toneVars>>

is_alive(b) == mel_pc[b] \notin {"none", "done"}

\* the orchestrator is between two calls
between_calls == mon_pc \in {"idle", "stopped"}

\* ------------------------------------------------------------------------
\* WeightMonitor.start_music / stop_music (main.py)
\* ------------------------------------------------------------------------
\* start_music lines 86-112: nothing while music_playing; else a new
\* BadAppleBuzzer (its constructor runs setup_gpio) and, if it got its pin,
\* a new play_music thread
start_music ==
    /\ between_calls
    /\ mon_pc' = "idle"
    /\ ~music_playing
    /\ created < MaxBuzzers
    /\ LET b == created + 1
           r == setup_gpio_result(BEEP_PIN_BOARD)
       IN  /\ created' = b
           /\ buzzer' = b
           /\ gpio_initialized' = r.init
           /\ gpio_mode' = r.mode
           /\ allocated_pins' = r.alloc
           /\ pin_states' = r.ps
           /\ buzzer_initialized' = [buzzer_initialized EXCEPT ![b] = r.ok]
           /\ music_playing' = r.ok
           /\ music_thread' = IF r.ok THEN b ELSE music_thread
           /\ mel_pc' = [mel_pc EXCEPT ![b] = IF r.ok THEN "loop" ELSE @]
           /\ refused' = [refused EXCEPT ![b] = ~r.ok]
    /\ UNCHANGED <<GPIO_AVAILABLE, last, stop_playing, note_i, cycle_i,
                   highs_after_stop, started_after_stop, exit_level, cleaned, toneVars>>

\* stop_music lines 127-130: buzzer.stop() and music_playing = False
stop_music_enabled ==
    /\ between_calls
    /\ music_playing /\ buzzer # 0

\* stop_music line 127 when the condition is false: the call returns at once
stop_music_return ==
    /\ between_calls
    /\ ~stop_music_enabled
    /\ mon_pc' = "stopped"
    /\ UNCHANGED <<regVars, last, music_playing, buzzer, music_thread, created,
                   buzVars, obsVars>>

stop_music_stop ==
    /\ stop_music_enabled
    /\ stop_playing' = [stop_playing EXCEPT ![buzzer] = TRUE]
    /\ music_playing' = FALSE
    /\ mon_pc' = "join"
    /\ UNCHANGED <<regVars, last, buzzer, music_thread, created,
                   buzzer_initialized, mel_pc, note_i, cycle_i, obsVars>>

\* stop_music lines 133-134: join(timeout=1.0) returns when the thread has
\* ended or when the timeout expires, whichever comes first
stop_music_join ==
    /\ mon_pc = "join"
    /\ mon_pc' = "cleanup"
    /\ UNCHANGED <<regVars, last, music_playing, buzzer, music_thread, created,
                   buzVars, obsVars>>

\* cleanup line 590: the pin is touched only by an instance that holds it
cleanup_mutant_unconditional(b) == TRUE

cleanup_has_pin(b) == buzzer_initialized[b]

\* cleanup line 589-590
cleanup_stop ==
    /\ mon_pc = "cleanup"
    /\ stop_playing' = [stop_playing EXCEPT ![buzzer] = TRUE]
    /\ mon_pc' = IF cleanup_has_pin(buzzer) THEN "cleanup_low" ELSE "cleanup_end"
    /\ UNCHANGED <<regVars, last, music_playing, buzzer, music_thread, created,
                   buzzer_initialized, mel_pc, note_i, cycle_i, obsVars>>

\* cleanup line 593: _gpio_output(beep_pin, LOW)
cleanup_low ==
    /\ mon_pc = "cleanup_low"
    /\ pin_states' = output_result(BEEP_PIN_BOARD, LOW).ps
    /\ mon_pc' = "cleanup_release"
    /\ UNCHANGED <<GPIO_AVAILABLE, gpio_initialized, gpio_mode, allocated_pins,
                   last, music_playing, buzzer, music_thread, created,
                   buzVars, obsVars>>

\* cleanup line 597: release_pin(beep_pin, "BadAppleBuzzer")
cleanup_release ==
    /\ mon_pc = "cleanup_release"
    /\ LET r == release_pin_result(BEEP_PIN_BOARD, "BadAppleBuzzer") IN
       /\ allocated_pins' = r.alloc
       /\ pin_states' = r.ps
    /\ mon_pc' = "cleanup_end"
    /\ UNCHANGED <<GPIO_AVAILABLE, gpio_initialized, gpio_mode,
                   last, music_playing, buzzer, music_thread, created,
                   buzVars, obsVars>>

\* cleanup line 603 and stop_music line 142
cleanup_end ==
    /\ mon_pc = "cleanup_end"
    /\ buzzer_initialized' = [buzzer_initialized EXCEPT ![buzzer] = FALSE]
    /\ cleaned' = [cleaned EXCEPT ![buzzer] = TRUE]
    /\ buzzer' = 0
    /\ mon_pc' = "stopped"
    /\ UNCHANGED <<regVars, last, music_playing, music_thread, created,
                   stop_playing, mel_pc, note_i, cycle_i,
                   highs_after_stop, started_after_stop, exit_level, refused, toneVars>>

\* ------------------------------------------------------------------------
\* Specification of the playback: the orchestrator calls start_music and
\* stop_music in any order while the play_music threads run
\* ------------------------------------------------------------------------
InitMusic ==
    /\ InitReg

MelodyLoop == \E b \in Buzzers : play_melody_loop(b) /\ UNCHANGED nonMusicVars
ToneEnter == \E b \in Buzzers : tone_enter(b) /\ UNCHANGED nonMusicVars
ToneCycle == \E b \in Buzzers : tone_cycle(b) /\ UNCHANGED nonMusicVars
ToneOutputCheck == \E b \in Buzzers : tone_output_check(b) /\ UNCHANGED nonMusicVars
ToneOutputWrite == \E b \in Buzzers : tone_output_write(b, FALSE) /\ UNCHANGED nonMusicVars
MelodyPause == \E b \in Buzzers : play_melody_pause(b) /\ UNCHANGED nonMusicVars
MusicFinally == \E b \in Buzzers : play_music_finally(b) /\ UNCHANGED nonMusicVars
StartMusic == start_music /\ UNCHANGED nonMusicVars
StopMusicReturn == stop_music_return /\ UNCHANGED nonMusicVars
StopMusicStop == stop_music_stop /\ UNCHANGED nonMusicVars
StopMusicJoin == stop_music_join /\ UNCHANGED nonMusicVars
CleanupStop == cleanup_stop /\ UNCHANGED nonMusicVars
CleanupLow == cleanup_low /\ UNCHANGED nonMusicVars
CleanupRelease == cleanup_release /\ UNCHANGED nonMusicVars
CleanupEnd == cleanup_end /\ UNCHANGED nonMusicVars

NextMusic ==
    \/ StartMusic
    \/ StopMusicReturn
    \/ StopMusicStop
    \/ StopMusicJoin
    \/ CleanupStop
    \/ CleanupLow
    \/ CleanupRelease
    \/ CleanupEnd
    \/ MelodyLoop
    \/ ToneEnter
    \/ ToneCycle
    \/ ToneOutputCheck
    \/ ToneOutputWrite
    \/ MelodyPause
    \/ MusicFinally

SpecMusic == InitMusic /\ [][NextMusic]_vars

\* ------------------------------------------------------------------------
\* Direct calls of tone (main.py line 230, the demos of beep.py): a
\* BadAppleBuzzer is constructed and tone(frequency, duration) runs on the
\* calling thread, one call at a time
\* ------------------------------------------------------------------------
ToneCalls == {<<0, 18>>, <<1500, 18>>, <<440, 10>>, <<1000, 5>>}

no_tone_running == \A c \in Buzzers : mel_pc[c] \in {"none", "ready"}

\* BadAppleBuzzer.__init__ lines 146-148: the flags, then setup_gpio
buzzer_new ==
    /\ created < MaxBuzzers
    /\ no_tone_running
    /\ LET b == created + 1
           r == setup_gpio_result(BEEP_PIN_BOARD)
       IN  /\ created' = b
           /\ gpio_initialized' = r.init
           /\ gpio_mode' = r.mode
           /\ allocated_pins' = r.alloc
           /\ pin_states' = r.ps
           /\ buzzer_initialized' = [buzzer_initialized EXCEPT ![b] = r.ok]
           /\ mel_pc' = [mel_pc EXCEPT ![b] = "ready"]
           /\ refused' = [refused EXCEPT ![b] = ~r.ok]
    /\ UNCHANGED <<GPIO_AVAILABLE, last, music_playing, buzzer, music_thread,
                   mon_pc, stop_playing, note_i, cycle_i,
                   highs_after_stop, started_after_stop, exit_level, cleaned, toneVars>>

\* tone line 206: the call, with an integer number of milliseconds
tone_call(b, frequency, duration) ==
    /\ no_tone_running
    /\ mel_pc[b] = "ready"
    /\ tone_local' =
           [tone_local EXCEPT ![b] =
               [ToneCall(frequency, <<duration, 1>>, FromInt(duration), "call")
                    EXCEPT !.stopped = stop_playing[b]]]
    /\ mel_pc' = [mel_pc EXCEPT ![b] = "tone"]
    /\ UNCHANGED <<regVars, last, monVars, stop_playing, buzzer_initialized,
                   note_i, cycle_i, highs_after_stop, started_after_stop,
                   exit_level, cleaned, refused, tone_writes, write_errors, played, gaps>>

BuzzerNew == buzzer_new /\ UNCHANGED nonMusicVars
ToneCall_ ==
    \E b \in Buzzers, c \in ToneCalls :
        tone_call(b, c[1], c[2]) /\ UNCHANGED nonMusicVars

NextTone ==
    \/ BuzzerNew
    \/ ToneCall_
    \/ ToneEnter
    \/ ToneCycle
    \/ ToneOutputCheck
    \/ ToneOutputWrite

SpecTone == InitReg /\ [][NextTone]_vars

\* ------------------------------------------------------------------------
\* A play_music thread whose pin writes may fail: no stop is requested
\* ------------------------------------------------------------------------
ToneOutputWriteFault ==
    \E b \in Buzzers, fault \in BOOLEAN :
        tone_output_write(b, fault) /\ UNCHANGED nonMusicVars

NextFault ==
    \/ StartMusic
    \/ MelodyLoop
    \/ ToneEnter
    \/ ToneCycle
    \/ ToneOutputCheck
    \/ ToneOutputWriteFault
    \/ MelodyPause
    \/ MusicFinally

SpecFault == InitReg /\ [][NextFault]_vars

\* ------------------------------------------------------------------------
\* One buzzer instance used directly: tone, play_melody, stop and cleanup
\* are called on it in any order, stop and cleanup also while a tone runs,
\* and another module allocates, drives and releases the buzzer pin
\* ------------------------------------------------------------------------
BuzzerToneCalls == {<<0, 18>>, <<440, 5>>}

\* stop lines 576-578
buzzer_stop(b) ==
    /\ mel_pc[b] # "none"
    /\ stop_playing' = [stop_playing EXCEPT ![b] = TRUE]
    /\ UNCHANGED <<regVars, last, monVars, buzzer_initialized, mel_pc, note_i, cycle_i,
                   obsVars>>

\* cleanup line 587: the call on instance b; its steps are cleanup_stop,
\* cleanup_low, cleanup_release and cleanup_end
buzzer_cleanup(b) ==
    /\ between_calls
    /\ mel_pc[b] # "none"
    /\ buzzer' = b
    /\ mon_pc' = "cleanup"
    /\ UNCHANGED <<regVars, last, music_playing, music_thread, created, buzVars, obsVars>>

\* play_melody line 544: range(total_notes) starts at 0 (at most two
\* melodies are played on one instance)
play_melody_call(b) ==
    /\ no_tone_running
    /\ mel_pc[b] = "ready"
    /\ Len(played[b]) <= Len(melody)
    /\ note_i' = [note_i EXCEPT ![b] = 0]
    /\ mel_pc' = [mel_pc EXCEPT ![b] = "loop"]
    /\ UNCHANGED <<regVars, last, monVars, stop_playing, buzzer_initialized, cycle_i,
                   obsVars>>

\* play_melody lines 573-574: the return to a caller that is not play_music
play_melody_return(b) ==
    /\ mel_pc[b] = "finally"
    /\ music_thread # b
    /\ mel_pc' = [mel_pc EXCEPT ![b] = "ready"]
    /\ UNCHANGED <<regVars, last, monVars, stop_playing, buzzer_initialized, note_i,
                   cycle_i, obsVars>>

BuzzerCreate == created = 0 /\ buzzer_new /\ UNCHANGED nonMusicVars
BuzzerToneCall ==
    \E b \in Buzzers, c \in BuzzerToneCalls :
        tone_call(b, c[1], c[2]) /\ UNCHANGED nonMusicVars
BuzzerStop == \E b \in Buzzers : buzzer_stop(b) /\ UNCHANGED nonMusicVars
BuzzerCleanup == \E b \in Buzzers : buzzer_cleanup(b) /\ UNCHANGED nonMusicVars
PlayMelodyCall == \E b \in Buzzers : play_melody_call(b) /\ UNCHANGED nonMusicVars
PlayMelodyReturn == \E b \in Buzzers : play_melody_return(b) /\ UNCHANGED nonMusicVars

\* the other module: init_gpio, then allocate_pin, output and release_pin on
\* the pin the buzzer asks for
OwnerInit == init_gpio(BOARD) /\ UNCHANGED nonRegVars
OwnerAllocate == allocate_pin(BEEP_PIN_BOARD, "WeightMonitor") /\ UNCHANGED nonRegVars
OwnerOutput ==
    \E value \in {LOW, HIGH} :
        output(BEEP_PIN_BOARD, value, "WeightMonitor") /\ UNCHANGED nonRegVars
OwnerRelease == release_pin(BEEP_PIN_BOARD, "WeightMonitor") /\ UNCHANGED nonRegVars

NextBuzzer ==
    \/ OwnerInit
    \/ OwnerAllocate
    \/ OwnerOutput
    \/ OwnerRelease
    \/ BuzzerCreate
    \/ BuzzerToneCall
    \/ PlayMelodyCall
    \/ MelodyLoop
    \/ ToneEnter
    \/ ToneCycle
    \/ ToneOutputCheck
    \/ ToneOutputWrite
    \/ MelodyPause
    \/ PlayMelodyReturn
    \/ BuzzerStop
    \/ BuzzerCleanup
    \/ CleanupStop
    \/ CleanupLow
    \/ CleanupRelease
    \/ CleanupEnd

SpecBuzzer == InitReg /\ [][NextBuzzer]_vars

\* ------------------------------------------------------------------------
\* The LED of WeightMonitor (main.py)
\* ------------------------------------------------------------------------
\* the default of config["led_pin"], a BCM number
CONFIG_LED_PIN == 19

Max(a, b) == IF a >= b THEN a ELSE b

\* led_alert line 152: is the caller the main thread
led_alert_mutant_in_place(t) == TRUE

led_alert_in_main_thread(t) == t = "main"

\* init_gpio_system lines 600-618
init_gpio_system ==
    /\ led_pc["main"] = "idle"
    /\ ~gpio_manager_initialized
    /\ LET r == init_gpio_result(BOARD) IN
       /\ gpio_mode' = r.mode
       /\ gpio_initialized' = r.init
       /\ gpio_manager_initialized' = r.ret
    /\ UNCHANGED <<GPIO_AVAILABLE, allocated_pins, pin_states, last,
                   led_initialized, led_pin, beep_queue, beep_lock,
                   led_pc, led_duration, flash_i, led_writers>>
    /\ UNCHANGED <<led_enqueued, led_executed>>

\* setup_led lines 432-473 with _auto_find_led_pin lines 475-507 and
\* _test_led_functionality lines 509-521 (three flashes that end low)
setup_led_result ==
    LET board_pin == bcm_to_board[CONFIG_LED_PIN]
        a == allocate_pin_result(board_pin, "WeightMonitor")
        f == find_available_pins_result(1, {11, 12, 13})
    IN  IF ~GPIO_AVAILABLE \/ ~gpio_manager_initialized
        THEN [ok |-> FALSE, pin |-> led_pin, alloc |-> allocated_pins, ps |-> pin_states]
        ELSE IF a.ret
        THEN [ok |-> TRUE, pin |-> board_pin, alloc |-> a.alloc,
              ps |-> GPIO_output(a.ps, board_pin, LOW)]
        ELSE IF f.pins # << >> /\ gpio_initialized
        THEN [ok |-> TRUE, pin |-> f.pins[1],
              alloc |-> (f.pins[1] :> "WeightMonitor") @@ allocated_pins,
              ps |-> GPIO_output(GPIO_setup(f.ps, f.pins[1]), f.pins[1], LOW)]
        ELSE [ok |-> FALSE, pin |-> led_pin, alloc |-> allocated_pins, ps |-> f.ps]

setup_led ==
    /\ led_pc["main"] = "idle"
    /\ ~led_initialized
    /\ LET r == setup_led_result IN
       /\ led_initialized' = r.ok
       /\ led_pin' = r.pin
       /\ allocated_pins' = r.alloc
       /\ pin_states' = r.ps
    /\ UNCHANGED <<GPIO_AVAILABLE, gpio_initialized, gpio_mode, last,
                   gpio_manager_initialized, beep_queue, beep_lock,
                   led_pc, led_duration, flash_i, led_writers>>
    /\ UNCHANGED <<led_enqueued, led_executed>>

\* cleanup_led lines 416-430
cleanup_led ==
    /\ led_pc["main"] = "idle"
    /\ led_initialized /\ GPIO_AVAILABLE
    /\ LET r == release_pin_result(led_pin, "WeightMonitor") IN
       /\ allocated_pins' = r.alloc
       /\ pin_states' = IF r.alloc # allocated_pins
                        THEN r.ps ELSE output_result(led_pin, LOW).ps
    /\ led_initialized' = FALSE
    /\ UNCHANGED <<GPIO_AVAILABLE, gpio_initialized, gpio_mode, last,
                   gpio_manager_initialized, led_pin, beep_queue, beep_lock,
                   led_pc, led_duration, flash_i, led_writers>>
    /\ UNCHANGED <<led_enqueued, led_executed>>

\* led_alert lines 147-160, called by thread t: nothing without the LED,
\* queue the request off the main thread, else flash in place
led_alert(t, duration) ==
    /\ led_pc[t] = "idle"
    /\ GPIO_AVAILABLE /\ led_initialized
    /\ led_alert_in_main_thread(t)
       \/ (Len(beep_queue) < MaxQueue /\ Len(led_enqueued) < MaxRequests)
    /\ led_duration' = [led_duration EXCEPT ![t] = duration]
    /\ IF ~led_alert_in_main_thread(t)
       THEN /\ led_pc' = [led_pc EXCEPT ![t] = "acquire"]
            /\ UNCHANGED flash_i
       ELSE /\ led_pc' = [led_pc EXCEPT ![t] = "flash_high"]
            /\ flash_i' = [flash_i EXCEPT ![t] = 0]
    /\ UNCHANGED <<regVars, last, gpio_manager_initialized, led_initialized, led_pin,
                   beep_queue, beep_lock, led_writers, led_enqueued, led_executed>>

\* led_alert line 154: with self.beep_lock
led_alert_acquire(t) ==
    /\ led_pc[t] = "acquire"
    /\ beep_lock = "free"
    /\ beep_lock' = t
    /\ led_pc' = [led_pc EXCEPT ![t] = "append"]
    /\ UNCHANGED <<regVars, last, gpio_manager_initialized, led_initialized, led_pin,
                   beep_queue, led_duration, flash_i, led_writers>>
    /\ UNCHANGED <<led_enqueued, led_executed>>

\* led_alert line 155
led_alert_append(t) ==
    /\ led_pc[t] = "append"
    /\ beep_queue' = Append(beep_queue, led_duration[t])
    /\ led_enqueued' = Append(led_enqueued, led_duration[t])
    /\ led_pc' = [led_pc EXCEPT ![t] = "release"]
    /\ UNCHANGED <<regVars, last, gpio_manager_initialized, led_initialized, led_pin,
                   beep_lock, led_duration, flash_i, led_writers, led_executed>>

\* led_alert lines 155-157: the end of the with block
led_alert_release(t) ==
    /\ led_pc[t] = "release"
    /\ beep_lock' = "free"
    /\ led_pc' = [led_pc EXCEPT ![t] = "idle"]
    /\ UNCHANGED <<regVars, last, gpio_manager_initialized, led_initialized, led_pin,
                   beep_queue, led_duration, flash_i, led_writers>>
    /\ UNCHANGED <<led_enqueued, led_executed>>

\* process_beep_queue line 213, on the main thread
process_beep_queue_acquire ==
    /\ led_pc["main"] = "idle"
    /\ beep_lock = "free"
    /\ beep_lock' = "main"
    /\ led_pc' = [led_pc EXCEPT !["main"] = "drain"]
    /\ UNCHANGED <<regVars, last, gpio_manager_initialized, led_initialized, led_pin,
                   beep_queue, led_duration, flash_i, led_writers>>
    /\ UNCHANGED <<led_enqueued, led_executed>>

\* process_beep_queue line 215: beep_queue.pop(0)
queue_pop_mutant_last(queue) ==
    [item |-> queue[Len(queue)], rest |-> SubSeq(queue, 1, Len(queue) - 1)]

queue_pop(queue) == [item |-> Head(queue), rest |-> Tail(queue)]

\* process_beep_queue lines 214-217 and _execute_led_sync lines 572-580
process_beep_queue_pop ==
    /\ led_pc["main"] = "drain"
    /\ IF beep_queue # << >>
       THEN /\ beep_queue' = queue_pop(beep_queue).rest
            /\ led_duration' = [led_duration EXCEPT !["main"] = queue_pop(beep_queue).item]
            /\ flash_i' = [flash_i EXCEPT !["main"] = 0]
            /\ led_pc' = [led_pc EXCEPT !["main"] = "flash_high"]
            /\ led_executed' = Append(led_executed, queue_pop(beep_queue).item)
            /\ UNCHANGED beep_lock
       ELSE /\ beep_lock' = "free"
            /\ led_pc' = [led_pc EXCEPT !["main"] = "idle"]
            /\ UNCHANGED <<beep_queue, led_duration, flash_i, led_executed>>
    /\ UNCHANGED <<regVars, last, gpio_manager_initialized, led_initialized, led_pin,
                   led_writers, led_enqueued>>

\* where _execute_led_sync returns to: the drain loop or the caller of
\* led_alert
execute_led_return(t) == IF beep_lock = t THEN "drain" ELSE "idle"

\* _execute_led_sync lines 572-583: the head of the flash loop and
\* output(led_pin, HIGH)
execute_led_high(t) ==
    /\ led_pc[t] = "flash_high"
    /\ IF ~led_initialized \/ flash_i[t] >= Max(3, led_duration[t])
       THEN /\ led_pc' = [led_pc EXCEPT ![t] = execute_led_return(t)]
            /\ UNCHANGED <<pin_states, flash_i, led_writers>>
       ELSE LET r == output_result(led_pin, HIGH) IN
            /\ pin_states' = r.ps
            /\ led_writers' = IF r.ret THEN led_writers \cup {t} ELSE led_writers
            /\ led_pc' = [led_pc EXCEPT ![t] = IF r.ret THEN "flash_low" ELSE "flash_high"]
            /\ flash_i' = [flash_i EXCEPT ![t] = IF r.ret THEN @ ELSE @ + 1]
    /\ UNCHANGED <<GPIO_AVAILABLE, gpio_initialized, gpio_mode, allocated_pins, last,
                   gpio_manager_initialized, led_initialized, led_pin,
                   beep_queue, beep_lock, led_duration>>
    /\ UNCHANGED <<led_enqueued, led_executed>>

\* _execute_led_sync lines 584-587: output(led_pin, LOW)
execute_led_low(t) ==
    /\ led_pc[t] = "flash_low"
    /\ LET r == output_result(led_pin, LOW) IN
       /\ pin_states' = r.ps
       /\ led_writers' = IF r.ret THEN led_writers \cup {t} ELSE led_writers
    /\ led_pc' = [led_pc EXCEPT ![t] = "flash_high"]
    /\ flash_i' = [flash_i EXCEPT ![t] = @ + 1]
    /\ UNCHANGED <<GPIO_AVAILABLE, gpio_initialized, gpio_mode, allocated_pins, last,
                   gpio_manager_initialized, led_initialized, led_pin,
                   beep_queue, beep_lock, led_duration>>
    /\ UNCHANGED <<led_enqueued, led_executed>>

\* ------------------------------------------------------------------------
\* Specification of the LED: the orchestrator sets the LED up, drains the
\* queue and may flash in place; a detection thread asks for alerts
\* ------------------------------------------------------------------------
InitLed ==
    /\ InitReg

LedInitGpioSystem == init_gpio_system /\ UNCHANGED nonLedVars
LedSetup == setup_led /\ UNCHANGED nonLedVars
LedCleanup == cleanup_led /\ UNCHANGED nonLedVars
LedAlert == \E t \in LedThreads, d \in LedDurations : led_alert(t, d) /\ UNCHANGED nonLedVars
LedAlertAcquire == \E t \in LedThreads : led_alert_acquire(t) /\ UNCHANGED nonLedVars
LedAlertAppend == \E t \in LedThreads : led_alert_append(t) /\ UNCHANGED nonLedVars
LedAlertRelease == \E t \in LedThreads : led_alert_release(t) /\ UNCHANGED nonLedVars
LedDrainAcquire == process_beep_queue_acquire /\ UNCHANGED nonLedVars
LedDrainPop == process_beep_queue_pop /\ UNCHANGED nonLedVars
LedFlashHigh == \E t \in LedThreads : execute_led_high(t) /\ UNCHANGED nonLedVars
LedFlashLow == \E t \in LedThreads : execute_led_low(t) /\ UNCHANGED nonLedVars

NextLed ==
    \/ LedInitGpioSystem
    \/ LedSetup
    \/ LedCleanup
    \/ LedAlert
    \/ LedAlertAcquire
    \/ LedAlertAppend
    \/ LedAlertRelease
    \/ LedDrainAcquire
    \/ LedDrainPop
    \/ LedFlashHigh
    \/ LedFlashLow

SpecLed == InitLed /\ [][NextLed]_vars

\* ------------------------------------------------------------------------
\* HX711 (hx711.py): the driver imports RPi.GPIO itself, or falls back to
\* its own MockGPIO; it does not go through the GPIO manager
\* ------------------------------------------------------------------------
SCK == 11
DT == 13

\* HX711.__init__ lines 86-97: setmode(BOARD), setup(SCK, OUT),
\* setup(DT, IN), output(SCK, LOW); the read_raw that ends the constructor
\* leaves SCK low.  RPi.GPIO refuses setmode(BOARD) once BCM is set.
hx711_init ==
    /\ ~(GPIO_AVAILABLE /\ gpio_mode = BCM)
    /\ IF GPIO_AVAILABLE
       THEN /\ pin_states' =
                   GPIO_output(GPIO_setup(GPIO_setup(pin_states, SCK), DT), SCK, LOW)
            /\ UNCHANGED hx_pin_states
       ELSE /\ hx_pin_states' =
                   GPIO_output(GPIO_setup(GPIO_setup(hx_pin_states, SCK), DT), SCK, LOW)
            /\ UNCHANGED pin_states
    /\ UNCHANGED <<GPIO_AVAILABLE, gpio_initialized, gpio_mode, allocated_pins, last>>
    /\ drive' = Drive("HX711", SCK, allocated_pins')

\* the GPIO module HX711 talks to: RPi.GPIO, or the MockGPIO of hx711.py
hx_gpio == IF GPIO_AVAILABLE THEN pin_states ELSE hx_pin_states

\* HX711.cleanup lines 228-231: GPIO.cleanup() without a channel.  RPi.GPIO
\* resets every channel the process has set up; the MockGPIO of hx711.py
\* clears its own table.  The registry is not told.
hx711_cleanup ==
    /\ SCK \in DOMAIN hx_gpio
    /\ IF GPIO_AVAILABLE
       THEN /\ pin_states' = EmptyDict
            /\ UNCHANGED hx_pin_states
       ELSE /\ hx_pin_states' = EmptyDict
            /\ UNCHANGED pin_states
    /\ UNCHANGED <<GPIO_AVAILABLE, gpio_initialized, gpio_mode, allocated_pins,
                   last, drive>>

\* ------------------------------------------------------------------------
\* Specification of the drivers: the start-up of main() and the pin traffic
\* of the three drivers, one call at a time
\* ------------------------------------------------------------------------
InitDrv ==
    /\ InitReg

DrvInitGpioSystem ==
    /\ init_gpio_system
    /\ UNCHANGED <<raceVars, musicVars, drvVars, hxVars>>

DrvHX711 ==
    /\ hx711_init
    /\ UNCHANGED <<raceVars, musicVars, ledVars, hxVars>>

DrvHX711Cleanup ==
    /\ hx711_cleanup
    /\ UNCHANGED <<raceVars, musicVars, ledVars, hxVars>>

\* BadAppleBuzzer.__init__ lines 145-147
DrvBuzzerSetup ==
    \E b \in Buzzers :
        /\ mel_pc[b] = "none" /\ ~buzzer_initialized[b] /\ ~cleaned[b]
        /\ LET r == setup_gpio_result(BEEP_PIN_BOARD) IN
           /\ gpio_initialized' = r.init
           /\ gpio_mode' = r.mode
           /\ allocated_pins' = r.alloc
           /\ pin_states' = r.ps
           /\ buzzer_initialized' = [buzzer_initialized EXCEPT ![b] = r.ok]
           /\ drive' = IF r.ok THEN Drive("BadAppleBuzzer", BEEP_PIN_BOARD, allocated_pins') ELSE drive
           /\ refused' = [refused EXCEPT ![b] = ~r.ok]
        /\ UNCHANGED <<GPIO_AVAILABLE, last, raceVars, monVars, stop_playing, mel_pc,
                       note_i, cycle_i, highs_after_stop, started_after_stop, exit_level,
                       cleaned, toneVars, ledVars, hx_pin_states, hxVars>>

\* BadAppleBuzzer._gpio_output lines 196-204
DrvBuzzerOutput ==
    \E b \in Buzzers, value \in {LOW, HIGH} :
        /\ gpio_output_allowed(b, BEEP_PIN_BOARD)
        /\ LET r == output_result(BEEP_PIN_BOARD, value) IN
           /\ pin_states' = r.ps
           /\ drive' = IF r.ret THEN Drive("BadAppleBuzzer", BEEP_PIN_BOARD, allocated_pins) ELSE drive
        /\ UNCHANGED <<GPIO_AVAILABLE, gpio_initialized, gpio_mode, allocated_pins, last,
                       raceVars, musicVars, ledVars, hx_pin_states, hxVars>>

\* BadAppleBuzzer.cleanup lines 587-605
DrvBuzzerCleanup ==
    \E b \in Buzzers :
        /\ buzzer_initialized[b]
        /\ LET r == release_pin_result(BEEP_PIN_BOARD, "BadAppleBuzzer") IN
           /\ allocated_pins' = r.alloc
           /\ pin_states' = IF r.alloc # allocated_pins /\ GPIO_AVAILABLE
                            THEN r.ps ELSE output_result(BEEP_PIN_BOARD, LOW).ps
        /\ stop_playing' = [stop_playing EXCEPT ![b] = TRUE]
        /\ buzzer_initialized' = [buzzer_initialized EXCEPT ![b] = FALSE]
        /\ cleaned' = [cleaned EXCEPT ![b] = TRUE]
        /\ drive' = Drive("BadAppleBuzzer", BEEP_PIN_BOARD, allocated_pins')
        /\ UNCHANGED <<GPIO_AVAILABLE, gpio_initialized, gpio_mode, last, raceVars,
                       monVars, mel_pc, note_i, cycle_i,
                       highs_after_stop, started_after_stop, exit_level, refused, toneVars,
                       ledVars, hx_pin_states, hxVars>>

DrvLedSetup ==
    /\ setup_led
    /\ drive' = IF led_initialized' THEN Drive("WeightMonitor", led_pin', allocated_pins') ELSE drive
    /\ UNCHANGED <<raceVars, musicVars, hx_pin_states, hxVars>>

\* the output calls of _execute_led_sync and _test_led_functionality
DrvLedOutput ==
    \E value \in {LOW, HIGH} :
        /\ led_initialized
        /\ LET r == output_result(led_pin, value) IN
           /\ pin_states' = r.ps
           /\ drive' = IF r.ret THEN Drive("WeightMonitor", led_pin, allocated_pins) ELSE drive
        /\ UNCHANGED <<GPIO_AVAILABLE, gpio_initialized, gpio_mode, allocated_pins, last,
                       raceVars, musicVars, ledVars, hx_pin_states, hxVars>>

NextDrv ==
    \/ DrvInitGpioSystem
    \/ DrvHX711
    \/ DrvHX711Cleanup
    \/ DrvBuzzerSetup
    \/ DrvBuzzerOutput
    \/ DrvBuzzerCleanup
    \/ DrvLedSetup
    \/ DrvLedOutput

SpecDrv == InitDrv /\ [][NextDrv]_vars

\* ------------------------------------------------------------------------
\* HX711.read_raw (hx711.py), one step per poll, pin write and sample.
\* Inputs: the gain given to the constructor, the conversions the device
\* may hold, the offsets set_offset may be given, and the values
\* random.randint may draw (lines 132 and 136).
\* ------------------------------------------------------------------------
MaxRetry == 100
Gains == {128, 64, 32, 16}
Words == {0, 1, 5592405, 8388607, 8388608, 8388609, 16777215}
Offsets == {<<41562, 1>>, <<415627, 10>>, <<0 - 2003, 10>>}
Noises == {0 - 100, 0 - 1, 0, 100}
SimNoises == {0 - 200, 0, 200}

\* int() of the fraction n / d: truncation towards zero
Trunc(n, d) == IF n >= 0 THEN n \div d ELSE 0 - ((0 - n) \div d)

\* _set_gain_pulses lines 99-108
set_gain_pulses(gain) ==
    CASE gain = 128 -> 1
      [] gain = 64 -> 3
      [] gain = 32 -> 2
      [] OTHER -> 1

\* the pins as the driver's GPIO library holds them: RPi.GPIO, shared with
\* the manager, or the MockGPIO of hx711.py
hx_levels == IF GPIO_AVAILABLE THEN pin_states ELSE hx_pin_states

hx_GPIO_output(pin, value) ==
    IF GPIO_AVAILABLE
    THEN pin_states' = GPIO_output(pin_states, pin, value) /\ UNCHANGED hx_pin_states
    ELSE hx_pin_states' = GPIO_output(hx_pin_states, pin, value) /\ UNCHANGED pin_states

\* the data line while the conversion is clocked out: the device puts the
\* next bit, most significant first, on every rising edge and holds it to
\* the next one; after the 24 data bits the line is high.  (The random
\* draws of MockGPIO.input(13) are the bits of dev_word as well.)
dt_level ==
    IF dev_edges \in 1..24
    THEN (dev_word \div (2 ^ (24 - dev_edges))) % 2
    ELSE HIGH

\* read_raw lines 156-158: value | 0xFF000000, then - 0x100000000, when bit
\* 23 is set.  Both constants are multiples of 2^16 and are applied to the
\* upper 16 bits of value (value < 2^24, so the OR is an addition).
sign_extend_mutant_unsigned(value) == value

sign_extend(value) ==
    IF (value \div 8388608) % 2 = 1
    THEN ((value \div 65536) + 65280 - 65536) * 65536 + (value % 65536)
    ELSE value

\* read_raw lines 128-138: the sample returned when the handshake timed
\* out; 200.0 / coefficient is 156800.02 for the default coefficient, and
\* its fraction never carries into the integer part for the offsets used
read_raw_fallback_mutant_wide(noise) ==
    Trunc(hx_offset[1] + 2 * noise * hx_offset[2], hx_offset[2])

read_raw_fallback(noise) ==
    IF simulate_weight
    THEN Trunc(hx_offset[1] + (156800 + noise) * hx_offset[2], hx_offset[2])
    ELSE Trunc(hx_offset[1] + noise * hx_offset[2], hx_offset[2])

\* read_raw lines 119-120: the call begins; the device holds a conversion
read_raw_begin ==
    /\ hx_pc' = "poll"
    /\ retry_count' = 0
    /\ hx_value' = 0
    /\ hx_i' = 0
    /\ dev_word' \in Words
    /\ dev_edges' = 0
    /\ polled_low' = FALSE
    /\ found_ready' = FALSE
    /\ sck_writes' = << >>
    /\ sample_sck' = {}
    /\ sampled' = << >>
    /\ hx_last' = Returned("none", 0)

\* HX711.__init__ lines 69-97, with no calibration file
hx711_new(gain) ==
    /\ hx_pc = "none"
    /\ hx711_init
    /\ hx_gain' = gain
    /\ gain_pulses' = set_gain_pulses(gain)
    /\ hx_offset' = <<41562, 1>>
    /\ simulate_weight' = FALSE
    /\ read_raw_begin
    /\ UNCHANGED <<raceVars, musicVars, ledVars, wVars>>

read_raw_call ==
    /\ hx_pc = "idle"
    /\ read_raw_begin
    /\ UNCHANGED <<hx_gain, gain_pulses, hx_offset, simulate_weight,
                   pin_states, hx_pin_states, drive, nonHxVars>>

\* read_raw line 123: retry_count += 1
next_retry_mutant_wrap(retries) == (retries + 1) % 100

next_retry(retries) == retries + 1

\* read_raw lines 121-140: one evaluation of the while condition, is_ready()
\* first, with the data line at level; then the sleep, or the end of the
\* loop and the test of retry_count
read_raw_poll(level) ==
    /\ hx_pc = "poll"
    /\ polled_low' = (polled_low \/ level = LOW)
    /\ IF level # LOW /\ retry_count < MaxRetry
       THEN /\ retry_count' = next_retry(retry_count)
            /\ UNCHANGED <<hx_pc, hx_value, hx_i, found_ready, hx_last>>
       ELSE /\ found_ready' = (level = LOW)
            /\ retry_count' = 0
            /\ IF retry_count >= MaxRetry
               THEN /\ \E noise \in (IF simulate_weight THEN SimNoises ELSE Noises) :
                          hx_last' = Returned(IF simulate_weight THEN "simulated"
                                              ELSE "fallback",
                                              read_raw_fallback(noise))
                    /\ hx_pc' = "idle"
                    /\ UNCHANGED <<hx_value, hx_i>>
               ELSE /\ hx_value' = 0
                    /\ hx_i' = 0
                    /\ hx_pc' = "high"
                    /\ UNCHANGED hx_last
    /\ UNCHANGED <<hx_gain, gain_pulses, hx_offset, simulate_weight, dev_word, dev_edges,
                   sck_writes, sample_sck, sampled,
                   pin_states, hx_pin_states, drive, nonHxVars>>

\* read_raw line 144
read_raw_bit_high ==
    /\ hx_pc = "high"
    /\ hx_GPIO_output(SCK, HIGH)
    /\ dev_edges' = dev_edges + 1
    /\ sck_writes' = Append(sck_writes, HIGH)
    /\ hx_pc' = "low"
    /\ UNCHANGED <<hx_gain, gain_pulses, hx_offset, simulate_weight, retry_count,
                   hx_value, hx_i, dev_word, polled_low, found_ready, sample_sck,
                   sampled, hx_last, drive, nonHxVars>>

\* read_raw line 145
read_raw_bit_low ==
    /\ hx_pc = "low"
    /\ hx_GPIO_output(SCK, LOW)
    /\ sck_writes' = Append(sck_writes, LOW)
    /\ hx_pc' = "sample"
    /\ UNCHANGED <<hx_gain, gain_pulses, hx_offset, simulate_weight, retry_count,
                   hx_value, hx_i, dev_word, dev_edges, polled_low, found_ready,
                   sample_sck, sampled, hx_last, drive, nonHxVars>>

\* read_raw lines 146-148, and the end of the first loop
read_raw_bit_sample ==
    /\ hx_pc = "sample"
    /\ hx_value' = hx_value * 2 + (IF dt_level = HIGH THEN 1 ELSE 0)
    /\ sample_sck' = sample_sck \cup {GPIO_input(hx_levels, SCK)}
    /\ sampled' = Append(sampled, dt_level)
    /\ IF hx_i + 1 < 24
       THEN hx_i' = hx_i + 1 /\ hx_pc' = "high"
       ELSE hx_i' = 0 /\ hx_pc' = "gain_high"
    /\ UNCHANGED <<hx_gain, gain_pulses, hx_offset, simulate_weight, retry_count,
                   dev_word, dev_edges, polled_low, found_ready, sck_writes, hx_last,
                   pin_states, hx_pin_states, drive, nonHxVars>>

\* read_raw line 152
read_raw_gain_high ==
    /\ hx_pc = "gain_high"
    /\ hx_GPIO_output(SCK, HIGH)
    /\ dev_edges' = dev_edges + 1
    /\ sck_writes' = Append(sck_writes, HIGH)
    /\ hx_pc' = "gain_low"
    /\ UNCHANGED <<hx_gain, gain_pulses, hx_offset, simulate_weight, retry_count,
                   hx_value, hx_i, dev_word, polled_low, found_ready, sample_sck,
                   sampled, hx_last, drive, nonHxVars>>

\* read_raw line 153, and after the last gain pulse lines 155-160
read_raw_gain_low ==
    /\ hx_pc = "gain_low"
    /\ hx_GPIO_output(SCK, LOW)
    /\ sck_writes' = Append(sck_writes, LOW)
    /\ IF hx_i + 1 < gain_pulses
       THEN /\ hx_i' = hx_i + 1
            /\ hx_pc' = "gain_high"
            /\ UNCHANGED hx_last
       ELSE /\ hx_i' = 0
            /\ hx_pc' = "idle"
            /\ hx_last' = Returned("clocked", sign_extend(hx_value))
    /\ UNCHANGED <<hx_gain, gain_pulses, hx_offset, simulate_weight, retry_count,
                   hx_value, dev_word, dev_edges, polled_low, found_ready, sample_sck,
                   sampled, drive, nonHxVars>>

\* set_offset lines 199-203: the fields it assigns
set_offset_mutant_uncalibrated(offset) ==
    /\ hx_offset' = offset
    /\ is_calibrated' = FALSE

set_offset_fields(offset) ==
    /\ hx_offset' = offset
    /\ is_calibrated' = TRUE

\* set_offset lines 199-203
set_offset(offset) ==
    /\ hx_pc = "idle"
    /\ set_offset_fields(offset)
    /\ UNCHANGED <<hx_gain, gain_pulses, simulate_weight, hx_pc, retry_count, hx_value,
                   hx_i, dev_word, dev_edges, polled_low, found_ready, sck_writes,
                   sample_sck, sampled, hx_last,
                   pin_states, hx_pin_states, drive,
                   GPIO_AVAILABLE, gpio_initialized, gpio_mode, allocated_pins, last,
                   raceVars, musicVars, ledVars,
                   hx_coefficient, weight_buffer, weights, w_last>>

\* simulate_add_object lines 261-264, simulate_remove_object lines 256-259
simulate_object(present) ==
    /\ hx_pc = "idle"
    /\ simulate_weight' = present
    /\ UNCHANGED <<hx_gain, gain_pulses, hx_offset, hx_pc, retry_count, hx_value,
                   hx_i, dev_word, dev_edges, polled_low, found_ready, sck_writes,
                   sample_sck, sampled, hx_last,
                   pin_states, hx_pin_states, drive, nonHxVars>>

InitHx ==
    /\ InitReg

NextHx ==
    \/ \E gain \in Gains : hx711_new(gain)
    \/ read_raw_call
    \/ \E level \in {LOW, HIGH} : read_raw_poll(level)
    \/ read_raw_bit_high
    \/ read_raw_bit_low
    \/ read_raw_bit_sample
    \/ read_raw_gain_high
    \/ read_raw_gain_low
    \/ \E offset \in Offsets : set_offset(offset)
    \/ \E present \in BOOLEAN : simulate_object(present)

SpecHx == InitHx /\ [][NextHx]_vars

\* the thread inside read_raw keeps running: time.sleep(0.001) returns and
\* every statement of the function is executed in turn
ReadRawStep ==
    \/ \E level \in {LOW, HIGH} : read_raw_poll(level)
    \/ read_raw_bit_high
    \/ read_raw_bit_low
    \/ read_raw_bit_sample
    \/ read_raw_gain_high
    \/ read_raw_gain_low

SpecHxLive == SpecHx /\ WF_vars(ReadRawStep)

\* ------------------------------------------------------------------------
\* HX711 weighing (hx711.py): read_average, tare, get_weight and
\* get_stable_weight, each one step.  The samples read_raw returns during
\* a call are inputs.  Averages, offsets, coefficients and weights are
\* fractions <<numerator, denominator>> in lowest terms with a positive
\* denominator.
\* ------------------------------------------------------------------------
MaxCalls == 4
RawValues == {41562, 41719}
Times == {1, 2}
Coefficients == {<<127551, 100000000>>, <<0 - 127551, 100000000>>}

Abs(n) == IF n < 0 THEN 0 - n ELSE n

RECURSIVE Gcd(_, _)
Gcd(a, b) == IF b = 0 THEN a ELSE Gcd(b, a % b)

Frac(n, d) == LET g == Gcd(Abs(n), d) IN <<n \div g, d \div g>>

Zero == <<0, 1>>

FracAdd(x, y) ==
    LET g == Gcd(x[2], y[2])
        l == (x[2] \div g) * y[2]
    IN  Frac(x[1] * (l \div x[2]) + y[1] * (l \div y[2]), l)

FracSub(x, y) == FracAdd(x, <<0 - y[1], y[2]>>)

FracMul(x, y) ==
    LET g1 == Gcd(Abs(x[1]), y[2])
        g2 == Gcd(Abs(y[1]), x[2])
    IN  Frac((x[1] \div g1) * (y[1] \div g2), (x[2] \div g2) * (y[2] \div g1))

FracDivInt(x, n) ==
    LET g == Gcd(Abs(x[1]), n) IN Frac(x[1] \div g, x[2] * (n \div g))

FracLess(x, y) == FracSub(x, y)[1] < 0

FracMax(x, y) == IF FracLess(x, y) THEN y ELSE x

\* sum(seq) of a list of fractions
RECURSIVE FracSum(_)
FracSum(seq) ==
    IF seq = << >> THEN Zero ELSE FracAdd(seq[1], FracSum(Tail(seq)))

\* sum of a list of integers
RECURSIVE IntSum(_)
IntSum(seq) == IF seq = << >> THEN 0 ELSE seq[1] + IntSum(Tail(seq))

\* the lists of samples read_raw may return during read_average(times)
Samples == UNION {[1..times -> RawValues] : times \in Times}

\* read_average lines 162-168: sum_value / times
read_average(raws) == Frac(IntSum(raws), Len(raws))

\* get_weight lines 188-192 with the average raw_value
get_weight_mutant_no_floor(raw_value) ==
    FracMul(FracSub(raw_value, hx_offset), hx_coefficient)

get_weight_result(raw_value) ==
    LET weight == FracMul(FracSub(raw_value, hx_offset), hx_coefficient) IN
    IF FracLess(Zero, weight) THEN FracMax(Zero, weight) ELSE Zero

\* get_stable_weight lines 242-246: the buffer after the append and the pop
push_weight_mutant_keep_oldest(buffer, current_weight) ==
    IF Len(buffer) + 1 > 3 THEN buffer ELSE Append(buffer, current_weight)

push_weight(buffer, current_weight) ==
    LET appended == Append(buffer, current_weight) IN
    IF Len(appended) > 3 THEN Tail(appended) ELSE appended

\* get_stable_weight lines 249-254: the value returned
stable_value_mutant_current(buffer, current_weight) == current_weight

stable_value(buffer, current_weight) ==
    IF Len(buffer) < 2
    THEN current_weight
    ELSE FracDivInt(FracSum(buffer), Len(buffer))

WCall(op, raw_value, weight, ret) ==
    [op |-> op, raw |-> raw_value, weight |-> weight, ret |-> ret, file |-> FALSE,
     reads |-> << >>]

\* what the weighing leaves alone
nonWVars == <<regVars, last, raceVars, musicVars, ledVars, drvVars,
              hx_gain, gain_pulses, simulate_weight, hx_pc, retry_count,
              hx_value, hx_i, dev_word, dev_edges, polled_low, found_ready,
              sck_writes, sample_sck, sampled, hx_last>>

\* hx711_calibration.json as load_calibration lines 205-226 reads it: no file,
\* or a record of the four keys (a missing key reads as the value the
\* instance holds, and as True for is_calibrated)
NoFile == [exists |-> FALSE, coefficient |-> <<127551, 100000000>>,
           offset |-> <<41562, 1>>, gain |-> 128, is_calibrated |-> FALSE]
CalibrationFiles ==
    {NoFile} \cup
    {[exists |-> TRUE, coefficient |-> coefficient, offset |-> saved[1], gain |-> saved[2],
      is_calibrated |-> flag] :
        coefficient \in Coefficients,
        saved \in {<<<<41562, 1>>, 128>>, <<<<41600, 1>>, 64>>},
        flag \in BOOLEAN}

\* HX711.__init__ lines 69-84 and 94: a new instance, with the fields of
\* load_calibration lines 205-226
hx711_fields(file) ==
    /\ hx_coefficient' = file.coefficient
    /\ hx_offset' = file.offset
    /\ hx_gain' = file.gain
    /\ gain_pulses' = set_gain_pulses(file.gain)
    /\ is_calibrated' = file.is_calibrated
    /\ weight_buffer' = << >>
    /\ simulate_weight' = FALSE
    /\ weights' = << >>
    /\ w_last' = [WCall("HX711", Zero, Zero, Zero) EXCEPT !.file = file.exists]
    /\ UNCHANGED <<regVars, last, raceVars, musicVars, ledVars, drvVars,
                   hx_pc, retry_count, hx_value, hx_i, dev_word, dev_edges,
                   polled_low, found_ready, sck_writes, sample_sck, sampled, hx_last>>

\* tare lines 170-177: the fields it assigns
tare_mutant_clears_buffer(raws) ==
    /\ hx_offset' = read_average(raws)
    /\ is_calibrated' = TRUE
    /\ weight_buffer' = << >>

tare_fields(raws) ==
    /\ hx_offset' = read_average(raws)
    /\ is_calibrated' = TRUE
    /\ UNCHANGED weight_buffer

\* tare lines 170-177
tare(raws) ==
    /\ tare_fields(raws)
    /\ w_last' = [WCall("tare", read_average(raws), Zero, Zero) EXCEPT !.reads = raws]
    /\ UNCHANGED <<hx_coefficient, weights, nonWVars>>

\* set_coefficient lines 194-197
set_coefficient(coefficient) ==
    /\ hx_coefficient' = coefficient
    /\ w_last' = WCall("set_coefficient", Zero, Zero, coefficient)
    /\ UNCHANGED <<hx_offset, is_calibrated, weight_buffer, weights, nonWVars>>

\* set_offset lines 199-203, on the instance of the weighing
set_offset_call(offset) ==
    /\ set_offset_fields(offset)
    /\ w_last' = WCall("set_offset", offset, Zero, Zero)
    /\ UNCHANGED <<hx_coefficient, weight_buffer, weights, nonWVars>>

\* get_weight lines 179-192
get_weight(raws) ==
    LET raw_value == read_average(raws)
        weight == get_weight_result(raw_value)
    IN  /\ w_last' = WCall("get_weight", raw_value, weight, weight)
        /\ UNCHANGED <<hx_offset, hx_coefficient, is_calibrated, weight_buffer, weights,
                       nonWVars>>

\* get_stable_weight lines 233-254
get_stable_weight(raws) ==
    LET raw_value == read_average(raws)
        current_weight == get_weight_result(raw_value)
        buffer == push_weight(weight_buffer, current_weight)
    IN  /\ Len(weights) < MaxCalls
        /\ weight_buffer' = buffer
        /\ weights' = Append(weights, current_weight)
        /\ w_last' = WCall("get_stable_weight", raw_value, current_weight,
                           stable_value(buffer, current_weight))
        /\ UNCHANGED <<hx_offset, hx_coefficient, is_calibrated, nonWVars>>

InitW ==
    /\ InitReg

NextW ==
    \/ \E file \in CalibrationFiles : hx711_fields(file)
    \/ \E raws \in Samples : tare(raws)
    \/ \E raws \in Samples : get_weight(raws)
    \/ \E raws \in Samples : get_stable_weight(raws)

SpecW == InitW /\ [][NextW]_vars

\* the calibration: every method that assigns coefficient, offset or
\* is_calibrated, between weighings of one sample
NextCal ==
    \/ \E file \in CalibrationFiles : hx711_fields(file)
    \/ \E raws \in Samples : tare(raws)
    \/ \E coefficient \in Coefficients : set_coefficient(coefficient)
    \/ \E offset \in {<<41650, 1>>} : set_offset_call(offset)
    \/ \E raws \in {<<41562>>} : get_weight(raws)
    \/ \E raws \in {<<41719>>} : get_stable_weight(raws)

SpecCal == InitW /\ [][NextCal]_vars

\* ------------------------------------------------------------------------
\* Properties of the registry (SpecReg).  last is the call just made; in an
\* action formula the unprimed variables are the state the call found.
\* ------------------------------------------------------------------------
\* C1: allocate(p, A) while A owns p succeeds, every time it is repeated;
\* allocate(p, B) while A owns p returns false and leaves the ownership
\* map, so the record p -> A, unchanged.
C1_IdempotentAllocate ==
    [][last'.op = "allocate_pin" /\ Owned(last'.pin) =>
          /\ allocated_pins' = allocated_pins
          /\ last'.ret = (allocated_pins[last'.pin] = last'.who)]_vars

C1_Witness ==
    /\ last.op = "allocate_pin"
    /\ last.ret = FALSE
    /\ OwnedByOther(last.pin, last.who)

\* C3: a write by a module that does not own the pin (another module does)
\* leaves every level unchanged and reports failure; a read by a non-owner
\* returns low.
C3_OwnerOnlyIO ==
    [][/\ (last'.op = "output" /\ OwnedByOther(last'.pin, last'.who) =>
              last'.ret = FALSE /\ pin_states' = pin_states)
       /\ (last'.op = "input" /\ OwnedByOther(last'.pin, last'.who) =>
              last'.val = LOW)]_vars

C6_ReleaseThenAllocate ==
    [][/\ (last'.op = "release_pin" /\ Owned(last'.pin)
             /\ allocated_pins[last'.pin] = last'.who =>
              allocated_pins' =
                  [q \in DOMAIN allocated_pins \ {last'.pin} |-> allocated_pins[q]])
       /\ (last.op = "release_pin" /\ last.ret
             /\ last'.op = "allocate_pin" /\ last'.pin = last.pin =>
              /\ last'.ret
              /\ Owned(last.pin)'
              /\ allocated_pins'[last.pin] = last'.who)]_vars

C6_Witness ==
    /\ last.op = "release_pin"
    /\ last.ret
    /\ ~Owned(last.pin)
    /\ DOMAIN allocated_pins # {}

\* C16: init_gpio with a mode other than the one the registry was
\* initialized with returns False and leaves the mode, the initialized flag
\* and the ownership map unchanged; with the same mode it returns True and
\* changes nothing either.  (last.who carries the mode argument.)
C16_InitializeTwice ==
    [][last'.op = "init_gpio" /\ gpio_initialized =>
          /\ last'.ret = (last'.who = gpio_mode)
          /\ gpio_mode' = gpio_mode
          /\ gpio_initialized' = gpio_initialized
          /\ allocated_pins' = allocated_pins
          /\ pin_states' = pin_states]_vars

C16_Witness ==
    /\ last.op = "init_gpio"
    /\ last.ret = FALSE
    /\ gpio_mode = BOARD /\ last.who = BCM
    /\ DOMAIN allocated_pins # {}

\* C17: allocate_pin on a registry that is not initialized returns False,
\* records no ownership and sets up no channel.
C17_AllocateUninitialized ==
    [][last'.op = "allocate_pin" /\ ~gpio_initialized =>
          /\ last'.ret = FALSE
          /\ allocated_pins' = allocated_pins
          /\ pin_states' = pin_states]_vars

C17_Witness ==
    /\ last.op = "allocate_pin"
    /\ ~gpio_initialized
    /\ last.ret = FALSE
    /\ ~Owned(last.pin)

\* C18: release_pin(p, X) when p has no record or is recorded for a module
\* other than X leaves the whole ownership map unchanged.
C18_ReleaseByNonOwner ==
    [][(/\ last'.op = "release_pin"
        /\ ~(Owned(last'.pin) /\ allocated_pins[last'.pin] = last'.who)) =>
          allocated_pins' = allocated_pins]_vars

C18_Witness ==
    /\ last.op = "release_pin"
    /\ last.ret = FALSE
    /\ OwnedByOther(last.pin, last.who)

\* C19: release_pin by the recorded owner does not change the physical
\* state of the pin: the channel stays set up at the level last driven.
C19_ReleaseKeepsLevel ==
    [][(/\ last'.op = "release_pin"
        /\ Owned(last'.pin) /\ allocated_pins[last'.pin] = last'.who) =>
          pin_states' = pin_states]_vars

\* C20: find_available_pins(count, excluded) returns at most count pins,
\* for every count >= 0.  (last.val carries count, last.pins the list.)
C20_AtMostCount ==
    last.op = "find_available_pins" => Len(last.pins) <= last.val

\* the position of pin in the list seq (0 if it is not there)
IndexOf(seq, pin) ==
    IF \E j \in 1..Len(seq) : seq[j] = pin
    THEN CHOOSE j \in 1..Len(seq) : seq[j] = pin
    ELSE 0

\* C21: every pin find_available_pins returns is in the safe list of the
\* active mode, is not excluded, has no ownership record when the call is
\* made and passes test_pin; the pins come in the order of the safe list.
\* (last.ex carries exclude_pins, last.pins the list returned.)
C21_FoundPinsAreFree ==
    [][last'.op = "find_available_pins" =>
          /\ \A k \in 1..Len(last'.pins) :
                /\ IndexOf(safe_pins, last'.pins[k]) > 0
                /\ last'.pins[k] \notin last'.ex
                /\ ~Owned(last'.pins[k])
                /\ test_pin_result(pin_states, last'.pins[k]).ret
          /\ \A k1, k2 \in 1..Len(last'.pins) :
                k1 < k2 => IndexOf(safe_pins, last'.pins[k1])
                               < IndexOf(safe_pins, last'.pins[k2])]_vars

C21_Witness ==
    /\ last.op = "find_available_pins"
    /\ last.ex = {11, 12, 13}
    /\ last.pins = <<15, 16>>

\* C23: with MockGPIO, a successful output(p, v) on an owned pin makes
\* input(p) return v, and input(p) keeps returning the same value over every
\* step that is not an output to p and that leaves p owned.
C23_MockReadsLastWrite ==
    [][\A p \in RegPins :
          /\ (~GPIO_AVAILABLE /\ last'.op = "output" /\ last'.pin = p /\ last'.ret) =>
                input_result(p)' = last'.val
          /\ (/\ ~GPIO_AVAILABLE /\ Owned(p) /\ Owned(p)'
              /\ ~(last'.op = "output" /\ last'.pin = p)) =>
                input_result(p)' = input_result(p)]_vars

C23_Witness ==
    /\ ~GPIO_AVAILABLE
    /\ last.op = "input"
    /\ Owned(last.pin)
    /\ last.val = HIGH

\* ------------------------------------------------------------------------
\* Properties of the numbering translation (SpecConv)
\* ------------------------------------------------------------------------
\* C22: converting a pin of the BCM-to-BOARD table to BOARD and the result
\* back to BCM gives the pin again, and likewise from the BOARD-to-BCM
\* table to BCM and back.  (last.who carries <<from_mode, to_mode>>.)
C22_ConvertRoundTrip ==
    [][(/\ last.op = "convert_pin" /\ last'.op = "convert_pin"
        /\ last'.pin = last.ret
        /\ \/ /\ last.who = <<BCM, BOARD>> /\ last'.who = <<BOARD, BCM>>
              /\ last.pin \in DOMAIN bcm_to_board
           \/ /\ last.who = <<BOARD, BCM>> /\ last'.who = <<BCM, BOARD>>
              /\ last.pin \in DOMAIN board_to_bcm) =>
          last'.ret = last.pin]_vars

C22_Witness ==
    /\ last.op = "convert_pin"
    /\ last.who = <<BOARD, BCM>>
    /\ last.pin = bcm_to_board[18]
    /\ last.ret = 18

\* ------------------------------------------------------------------------
\* Properties of the playback (SpecMusic)
\* ------------------------------------------------------------------------
\* C7: once the melody thread has terminated and the cleanup that stop_music
\* runs after its bounded join has returned, the buzzer pin is low (stated
\* where no other play_music thread is running and the orchestrator is
\* between two calls).
C7_LowAfterStopAndCleanup ==
    \A b \in Buzzers :
        /\ cleaned[b] /\ mel_pc[b] = "done"
        /\ between_calls
        /\ \A c \in Buzzers : ~is_alive(c)
        => Level(BEEP_PIN_BOARD) = LOW

\* C8: at most one play_music thread that has been started and has not yet
\* terminated exists at any time.
C8_OneMelodyTask ==
    Cardinality({b \in Buzzers : is_alive(b)}) <= 1

\* C9: once the stop flag is set during playback, tone begins at most one
\* further high/low pair, play_melody starts no further note, and the
\* thread terminates with the pin low.
C9_CooperativeStop ==
    \A b \in Buzzers :
        stop_playing[b] =>
            /\ highs_after_stop[b] <= 1
            /\ ~started_after_stop[b]
            /\ (mel_pc[b] = "done" => exit_level[b] = LOW)

\* C37: after stop_music has returned, and until start_music is called
\* again, the buzzer pin has no ownership record in the registry, whether
\* the melody was stopped or had already finished by itself.
C37_NoOwnerAfterStopMusic ==
    mon_pc = "stopped" => ~Owned(BEEP_PIN_BOARD)

\* ------------------------------------------------------------------------
\* Properties of buzzer instances used directly (SpecBuzzer)
\* ------------------------------------------------------------------------
\* C39: the stop flag of an instance is never cleared; a tone call made
\* after stop() or cleanup() writes nothing to the pin, and no note of
\* play_melody starts while the flag is set.
C39_StopFlagNeverCleared ==
    /\ [][\A b \in Buzzers : stop_playing[b] => stop_playing'[b]]_vars
    /\ [](\A b \in Buzzers :
              /\ ~started_after_stop[b]
              /\ (cleaned[b] => stop_playing[b])
              /\ (tone_local[b].stopped /\ mel_pc[b] # "tone" => tone_writes[b] = << >>))

C39_Witness ==
    \E b \in Buzzers :
        /\ stop_playing[b]
        /\ buzzer_initialized[b]
        /\ tone_local[b].stopped
        /\ tone_local[b].frequency = 440
        /\ tone_local[b].cycles > 0
        /\ mel_pc[b] = "ready"
        /\ Len(played[b]) = Len(melody)

\* C40: a buzzer whose allocation the registry refused changes no level and
\* no ownership record in any step of its tone, play_melody or cleanup.
C40_RefusedBuzzerTouchesNothing ==
    [][\A b \in Buzzers :
          (refused[b] /\ (mel_pc'[b] # mel_pc[b] \/ (buzzer = b /\ mon_pc' # mon_pc))) =>
              /\ pin_states' = pin_states
              /\ allocated_pins' = allocated_pins]_vars

C40_Witness ==
    \E b \in Buzzers :
        /\ refused[b]
        /\ cleaned[b]
        /\ OwnedByOther(BEEP_PIN_BOARD, "BadAppleBuzzer")
        /\ Level(BEEP_PIN_BOARD) = HIGH
        /\ tone_local[b].frequency = 440
        /\ gaps[b] = Len(melody)

\* ------------------------------------------------------------------------
\* Properties of the LED (SpecLed)
\* ------------------------------------------------------------------------
\* C10: an LED alert asked for off the orchestrator thread never writes the
\* LED pin from that thread; it only appends its request to the queue, with
\* the lock held, and every LED write of an alert is made by the
\* orchestrator thread.
C10_LedWritesOnMainThread ==
    [][/\ led_writers' \subseteq {"main"}
       /\ \A t \in LedThreads \ {"main"} :
              /\ led_pc'[t] \in {"idle", "acquire", "append", "release"}
              /\ (led_pc[t] # led_pc'[t] /\ beep_queue' # beep_queue =>
                      /\ beep_lock = t
                      /\ beep_queue' = Append(beep_queue, led_duration[t]))
              /\ (led_pc[t] # led_pc'[t] => pin_states' = pin_states)]_vars

C10_Witness ==
    /\ led_pc["main"] = "flash_low"
    /\ beep_lock = "main"
    /\ led_pc["worker"] = "acquire"
    /\ Level(led_pin) = HIGH
    /\ led_writers = {"main"}

\* C32: after a call of the module-level cleanup_all(), which passes no
\* force, the registry is not initialized, its mode is unset and its
\* ownership map is empty, and an allocate_pin that follows it fails.
C32_TeardownUninitializes ==
    [][/\ (last'.op = "cleanup_all" /\ ~last'.ret =>
              /\ ~gpio_initialized'
              /\ gpio_mode' = None
              /\ allocated_pins' = EmptyDict)
       /\ (last.op = "cleanup_all" /\ ~last.ret /\ last'.op = "allocate_pin" =>
              last'.ret = FALSE)]_vars

\* C38: test_pin and find_available_pins leave the ownership map unchanged,
\* and every pin that has an ownership record when the call is made keeps
\* its configuration and its level.
C38_ProbingKeepsOwnedPins ==
    [][last'.op \in {"test_pin", "find_available_pins"} =>
          /\ allocated_pins' = allocated_pins
          /\ \A pin \in DOMAIN allocated_pins :
                 /\ (pin \in DOMAIN pin_states') = (pin \in DOMAIN pin_states)
                 /\ GPIO_input(pin_states', pin) = GPIO_input(pin_states, pin)]_vars

C38_Witness ==
    /\ last.op = "find_available_pins"
    /\ last.pins # << >>
    /\ \E pin \in DOMAIN allocated_pins : Level(pin) = HIGH

\* C33: output on a pin that has no ownership record returns False and
\* leaves every level as it is, and input on such a pin returns 0.
C33_UnownedPinIO ==
    [][/\ (last'.op = "output" /\ ~Owned(last'.pin) =>
              last'.ret = FALSE /\ pin_states' = pin_states)
       /\ (last'.op = "input" /\ ~Owned(last'.pin) => last'.val = 0)]_vars

C33_Witness ==
    /\ last.op = "output"
    /\ last.val = HIGH
    /\ last.ret = FALSE
    /\ gpio_initialized
    /\ ~Owned(last.pin)
    /\ last.pin \in DOMAIN pin_states
    /\ Level(last.pin) = LOW

\* C31: the requests appended to the queue are executed exactly once and
\* in the order of their appends: what has been executed, followed by what
\* is still queued, is what was appended; a request is executed only by the
\* drain of the orchestrator thread, with the lock held; and a
\* process_beep_queue call returns only when every request appended so far
\* has been executed.
C31_QueueFifoExactlyOnce ==
    [][/\ led_enqueued' = led_executed' \o beep_queue'
       /\ (led_executed' # led_executed =>
               /\ led_pc["main"] = "drain" /\ beep_lock = "main"
               /\ led_duration'["main"] = led_executed'[Len(led_executed')])
       /\ (led_pc["main"] = "drain" /\ led_pc'["main"] = "idle" =>
               led_executed' = led_enqueued')]_vars

C31_Witness ==
    /\ led_executed = <<2, 4>>
    /\ beep_queue = <<2>>
    /\ led_pc["main"] = "idle"
    /\ led_enqueued = <<2, 4, 2>>

\* C35: tare(n) sets offset to the mean of the n raw reads and the calibrated
\* flag to true, and leaves the coefficient, the gain, the gain pulse count
\* and the stable-weight buffer unchanged.
C35_TareFrame ==
    [][w_last'.op = "tare" =>
          /\ Len(w_last'.reads) \in Times
          /\ hx_offset'[1] * Len(w_last'.reads) = IntSum(w_last'.reads) * hx_offset'[2]
          /\ is_calibrated' = TRUE
          /\ UNCHANGED <<hx_coefficient, hx_gain, gain_pulses, weight_buffer>>]_vars

C35_Witness ==
    /\ w_last.op = "tare"
    /\ w_last.reads = <<41562, 41719>>
    /\ hx_offset = <<83281, 2>>
    /\ is_calibrated
    /\ Len(weight_buffer) = 2
    /\ hx_gain = 64

C5_DriversOwnWhatTheyDrive ==
    drive.by # None => drive.owner = drive.by

\* C28: HX711.cleanup() leaves the pins held by other modules as they are:
\* every pin the registry records, other than the clock and data pins of the
\* driver, keeps its owner, its configuration and its level.
C28_CleanupKeepsOtherPins ==
    [][DrvHX711Cleanup =>
          \A p \in DOMAIN allocated_pins \ {SCK, DT} :
              /\ p \in DOMAIN allocated_pins'
              /\ allocated_pins'[p] = allocated_pins[p]
              /\ (p \in DOMAIN pin_states) = (p \in DOMAIN pin_states')
              /\ GPIO_input(pin_states', p) = GPIO_input(pin_states, p)]_vars

\* ------------------------------------------------------------------------
\* Properties of read_raw (SpecHx).  The observations of a call stay as
\* they are from its return to the next call.
\* ------------------------------------------------------------------------
\* C11: a read_raw whose handshake found the device ready (is_ready()
\* returned True) drives exactly 24 + g clock pulses, each a write of high
\* then a write of low, with g = 1, 3, 2 for gain 128, 64, 32, and returns
\* with the clock pin low.
C11_ClockPulses ==
    hx_pc = "idle" /\ found_ready /\ hx_gain \in {128, 64, 32} =>
        LET g == CASE hx_gain = 128 -> 1 [] hx_gain = 64 -> 3 [] hx_gain = 32 -> 2 IN
        /\ sck_writes = [k \in 1..(2 * (24 + g)) |-> IF k % 2 = 1 THEN HIGH ELSE LOW]
        /\ GPIO_input(hx_levels, SCK) = LOW

\* C12: every data bit is sampled while the clock pin is high, after the
\* write of high of its pulse and before the write of low.
C12_SampleWhileClockHigh ==
    sample_sck \subseteq {HIGH}

\* C13: the value a clocked read_raw returns is the two's complement
\* reading of the 24 bits sampled, the first as bit 23: v below 2^23 is
\* returned as v, v from 2^23 on as v - 2^24; 0x800001 gives -8388607,
\* 0x000001 gives 1, and the result lies in -2^23 .. 2^23 - 1.
C13_TwosComplement ==
    hx_pc = "idle" /\ hx_last.path = "clocked" =>
        LET f[k \in 0..24] == IF k = 0 THEN 0 ELSE 2 * f[k - 1] + sampled[k]
            v == f[24]
        IN  /\ Len(sampled) = 24
            /\ hx_last.ret = (IF v < 8388608 THEN v ELSE v - 16777216)
            /\ hx_last.ret >= 0 - 8388608 /\ hx_last.ret <= 8388607
            /\ (v = 8388609 => hx_last.ret = 0 - 8388607)
            /\ (v = 1 => hx_last.ret = 1)

C13_Witness ==
    /\ hx_pc = "idle"
    /\ hx_last.path = "clocked"
    /\ dev_word = 8388609
    /\ sampled[1] = 1 /\ sampled[24] = 1
    /\ hx_last.ret = 0 - 8388607

\* C14: if some poll of the handshake read the data line low, read_raw
\* made the clocked read; the fallback is taken only when every poll read
\* high.
C14_LowPollMeansClockedRead ==
    hx_pc = "idle" /\ hx_last.path # "none" /\ polled_low =>
        hx_last.path = "clocked"

\* C15 as claimed: a read_raw whose handshake timed out, with no simulated
\* object, drives no clock pulse and returns r with |r - offset| <= 100.
C15_FallbackWithin100 ==
    hx_last.path = "fallback" =>
        LET n == hx_last.offset[1]
            d == hx_last.offset[2]
            diff == hx_last.ret * d - n
        IN  /\ sck_writes = << >>
            /\ diff <= 100 * d /\ 0 - diff <= 100 * d

\* C15 as amended: such a read_raw drives no clock pulse and returns the
\* integer part of offset + n for an integer n in -100 .. 100, so
\* |r - offset| < 101, and |r - offset| <= 100 when the offset is an integer.
C15_FallbackWithin101 ==
    hx_last.path = "fallback" =>
        LET n == hx_last.offset[1]
            d == hx_last.offset[2]
            diff == hx_last.ret * d - n
        IN  /\ sck_writes = << >>
            /\ diff < 101 * d /\ 0 - diff < 101 * d
            /\ (n % d = 0 => diff <= 100 * d /\ 0 - diff <= 100 * d)

C15_Witness ==
    /\ hx_pc = "idle"
    /\ hx_last.path = "fallback"
    /\ ~polled_low
    /\ hx_last.offset = <<415627, 10>>
    /\ hx_last.ret = 41462

\* C34: read_raw always terminates, whatever the data line does: the
\* handshake never sleeps more than 100 times, and every call that is in
\* progress returns, by the clocked read or by the fallback.
C34_ReadRawTerminates ==
    /\ [](retry_count <= 100)
    /\ (hx_pc \notin {"none", "idle"}) ~> (hx_pc = "idle" /\ hx_last.path # "none")

C34_Witness ==
    /\ hx_pc = "poll"
    /\ retry_count = 100
    /\ ~polled_low

LastN(seq, n) ==
    IF Len(seq) <= n THEN seq ELSE SubSeq(seq, Len(seq) - n + 1, Len(seq))

\* C25: after k calls of get_stable_weight the buffer holds the most recent
\* min(k, 3) weights, oldest first, and never more than 3.
C25_BufferIsLastThree ==
    /\ Len(weight_buffer) <= 3
    /\ weight_buffer = LastN(weights, 3)

C25_Witness ==
    /\ Len(weights) = 4
    /\ Len(weight_buffer) = 3
    /\ weights[1] # weights[4]
    /\ weight_buffer[1] # weight_buffer[2]

\* C26: the first get_stable_weight of an instance returns the current
\* weight and leaves one sample in the buffer; every later call returns
\* the arithmetic mean of the buffer as it is after the push and eviction.
C26_StableWeightIsMean ==
    w_last.op = "get_stable_weight" =>
        IF Len(weights) = 1
        THEN w_last.ret = w_last.weight /\ Len(weight_buffer) = 1
        ELSE /\ Len(weight_buffer) >= 2
             /\ FracMul(w_last.ret, <<Len(weight_buffer), 1>>) = FracSum(weight_buffer)

C26_Witness ==
    /\ w_last.op = "get_stable_weight"
    /\ Len(weights) = 4
    /\ w_last.ret # w_last.weight
    /\ w_last.ret # Zero


\* ------------------------------------------------------------------------
\* Properties of tone and play_melody
\* ------------------------------------------------------------------------
\* n write pairs, each high then low
Pairs(n) == [k \in 1..(2 * n) |-> IF k % 2 = 1 THEN HIGH ELSE LOW]

\* C27: on an initialized buzzer with the stop flag clear, once a call
\* tone(f, d) with f > 0 has returned it has made exactly floor(d * f / 1000) write pairs on
\* the buzzer pin, each high then low, and left the pin low; tone(0, d) has
\* made no write
C27_ExactCycleCount ==
    \A b \in Buzzers :
        (/\ no_tone_running
         /\ mel_pc[b] = "ready"
         /\ tone_local[b].caller = "call"
         /\ buzzer_initialized[b]
         /\ ~stop_playing[b])
        => IF tone_local[b].frequency = 0
           THEN tone_writes[b] = << >>
           ELSE /\ tone_writes[b] =
                       Pairs((tone_local[b].arg[1] * tone_local[b].frequency)
                             \div (tone_local[b].arg[2] * 1000))
                /\ Level(BEEP_PIN_BOARD) = LOW

\* C29: a pin write that fails during a tone aborts neither the tone nor
\* the melody: with no stop requested, every tone that ends has attempted
\* both writes of every one of its cycles, and a melody that ends has
\* played every note
C29_WriteErrorNeverAborts ==
    \A b \in Buzzers :
        /\ (/\ mel_pc[b] = "pause"
            /\ tone_local[b].frequency # 0
            /\ buzzer_initialized[b]
            /\ ~stop_playing[b])
           => tone_writes[b] = Pairs(tone_local[b].cycles)
        /\ (mel_pc[b] = "done" /\ ~stop_playing[b])
           => Len(played[b]) = Len(melody)

C29_Witness ==
    \E b \in Buzzers :
        /\ mel_pc[b] = "done"
        /\ write_errors[b]
        /\ ~stop_playing[b]
        /\ Len(played[b]) = Len(melody)

\* the calls of tone a complete run of play_melody makes, in order
ExpectedNotes == [i \in 1..Len(melody) |-> <<melody[i], note_duration(i - 1)>>]

\* C30: the notes played are always a prefix of the melody, in list order
\* with the duration base * units[i] / tempo; a note starts only after the
\* gap of the note before it; and a run whose stop flag was never set has
\* played every note exactly once
C30_NotesInOrder ==
    \A b \in Buzzers :
        /\ Len(played[b]) <= Len(melody)
        /\ played[b] = SubSeq(ExpectedNotes, 1, Len(played[b]))
        /\ Len(played[b]) <= gaps[b] + 1
        /\ (mel_pc[b] = "done" /\ ~stop_playing[b]) => played[b] = ExpectedNotes

C30_Witness ==
    \E b \in Buzzers :
        /\ mel_pc[b] = "done"
        /\ ~stop_playing[b]
        /\ played[b] = ExpectedNotes
        /\ gaps[b] = Len(melody)

====
